---- MODULE Spec2Model ----
(***************************************************************************)
(* AnonBot event dispatch: the Processor registry, the handler chain of a  *)
(* Processor with its pause / reject / finish / skip control flow and the  *)
(* continuation it registers, and handle_event's priority-ordered dispatch *)
(* with one thread per ProcessorType of a level.                           *)
(*                                                                         *)
(* Events are values of the Event interface: get_type(), get_session_id()  *)
(* and get_message() return.  Handler bodies, rule and permission          *)
(* predicates and the updaters are user code: a handler body ends in any   *)
(* of the outcomes of Outcomes, predicates and updaters return values.     *)
(* Every event has a session id.  A predicate's or a pre-processor's call  *)
(* ends in a returned value or in an exception; run post-processors only   *)
(* log and are left out.                                                   *)
(*                                                                         *)
(* Spec is the dispatch of one event at a time; SpecConc is the dispatch   *)
(* the adapter's receive loop starts, one pool task per event.  SpecHooks  *)
(* is Spec for plugins with pre- and post-processors and with predicates   *)
(* that raise and write to the state, SpecSingle is Spec for a single      *)
(* Processor, and SpecCalled calls a Rule and a Permission on their own.   *)
(*                                                                         *)
(* SpecPool is the task runtime of anonbot.threading: the pool's worker,   *)
(* the temporary threads, the stop signal of a thread, cancel and gather.  *)
(* SpecShutdown is the same pool under Driver._shutdown, with the worker   *)
(* and the driver scheduled fairly, and SpecServe the pool with its worker *)
(* scheduled fairly.  SpecNested is gather called by units that are being  *)
(* gathered, on pools of one worker and more.  SpecLoad is the load of the *)
(* plugins: Processor.new and the parse of the signatures of the handlers. *)
(*                                                                         *)
(* SpecNegative is Spec for a plugin with a Processor of negative priority *)
(* and one of priority 0.  SpecCommand is the command parse: the trie of   *)
(* TrieRule, get_value on a message and the check of a CommandRule.        *)
(* SpecPermission is the expressions Permission(..) | other.               *)
(***************************************************************************)
EXTENDS Integers, Sequences, FiniteSets, TLC

(* ------------------------------ bounds -------------------------------- *)

\* continuations that may be registered in one behaviour
MaxContinuations == 1
\* last value of the clock, which starts at 1
MaxTime == 3

(* ------------------------------ values -------------------------------- *)

\* Python's None, and a key that a state dict does not hold
NoValue == "<none>"

Sessions == {"s1", "s2"}
EventTypes == {"message-created", "guild-added"}
Messages == {"m1", "m2"}
\* the events the adapter delivers
Events ==
    [type : {"message-created"}, session : Sessions, message : Messages]
        \cup {[type |-> "guild-added", session |-> "s2", message |-> "m1"]}

\* the events delivered while another one is being handled
ConcEvents == {[type |-> "guild-added", session |-> "s2", message |-> "m1"]}

\* the keys Processor.get is used with
ArgKeys == {"key"}

\* config.session_expire_timeout, in clock ticks; 0 is timedelta(0)
Timeouts == {0, 1}

\* how a handler body ends
\* ("type_mismatch" is the TypeMisMatch a parameter raises before the body runs)
Outcomes == {"return", "stop", "skip", "type_mismatch", "finish", "pause", "reject",
             "error", "stop_propagation"}

\* the threads that run handle_event
Dispatchers == {1, 2}

(* ----------------------------- predicates ----------------------------- *)

\* the ways a call ends that are exceptions: SkippedException, IgnoredException,
\* another exception
Raises == {"skip", "ignore", "error"}

\* the most predicates a Rule or Permission called on its own has
MaxCheckers == 3

\* how the call of a predicate ends
PredOutcomes == {"true", "false", "skip", "error"}

\* the predicates of a Rule or a Permission, as the way each one's call ends
CheckerOutcomes == UNION {[1 .. n -> PredOutcomes] : n \in 0 .. MaxCheckers}

\* a call that ends in outcome o: it raised or not, and the value or the exception
Call(o) == [raised |-> o \in Raises, value |-> o]

\* Task.__call__: run(), then the future's exception is returned, not raised
Task_call(r) == [raised |-> FALSE, value |-> r.value]

\* run_with_catch(call, exc, return_on_err): return_on_err when call raises exc
run_with_catch(r, exc, return_on_err) ==
    IF r.raised /\ r.value \in exc THEN [raised |-> FALSE, value |-> return_on_err]
    ELSE r

\* bool(value): False and None are false; an exception object is true
bool(v) == v \notin {"false", NoValue}

\* an all() that is true as soon as one value is
all_any(values) == \E v \in values : bool(v)

\* all(result)
all(values) == \A v \in values : bool(v)

\* any(result)
any(values) == \E v \in values : bool(v)

\* gather(*tasks) without return_exceptions: the list of the results, or the
\* exception of the first future found with one; the futures are taken as they
\* complete, so that is the exception of any of them
gather(rs) ==
    IF \E i \in DOMAIN rs : rs[i].raised
    THEN {[raised |-> TRUE, value |-> rs[i].value] : i \in {j \in DOMAIN rs : rs[j].raised}}
    ELSE {[raised |-> FALSE, value |-> {rs[i].value : i \in DOMAIN rs}]}

\* Rule.__call__ on predicates that end as os tells: gather(Task(checker)..), False
\* on SkippedException, else all(result); "error" is another exception, which
\* leaves the call.  The results the call can have
Rule_call_outcomes(os) ==
    {IF g.raised THEN (IF g.value = "skip" THEN "false" ELSE "error")
     ELSE (IF all(g.value) THEN "true" ELSE "false") :
        g \in gather([c \in DOMAIN os |-> Call(os[c])])}

\* Permission.__call__ on predicates that end as os tells: true when empty, else
\* any(gather(Task(run_with_catch, Task(checker), SkippedException, False)..))
Permission_call_outcomes(os) ==
    IF DOMAIN os = {} THEN {"true"}
    ELSE {IF g.raised THEN "error" ELSE (IF any(g.value) THEN "true" ELSE "false") :
             g \in gather([c \in DOMAIN os |->
                              run_with_catch(Task_call(Call(os[c])), {"skip"}, "false")])}

\* a rule predicate of the plugins, by name: how its call ends for event e
RuleChecker(c, e) ==
    CASE c = "is_m1" -> IF e.message = "m1" THEN "true" ELSE "false"
      [] c = "startswith_m1" -> IF e.type = "message-created" /\ e.message = "m1"
                                THEN "true" ELSE "false"
      [] c = "has_text" -> IF e.type = "message-created" THEN "true" ELSE "error"
      [] OTHER -> "false"

\* the keys of the dispatch state a rule predicate writes when called for event e:
\* StartswithRule sets state[STARTSWITH_KEY] when the text matches
RuleWrites(c, e) ==
    IF c = "startswith_m1" /\ RuleChecker(c, e) = "true" THEN {"startswith"} ELSE {}

\* a permission predicate of the plugins, by name: how its call ends for event e
PermissionChecker(c, e) ==
    CASE c = "is_s1" -> IF e.session = "s1" THEN "true" ELSE "false"
      [] c = "is_member" -> IF e.type # "message-created" THEN "error"
                            ELSE IF e.session = "s1" THEN "true" ELSE "false"
      [] OTHER -> "false"

\* Rule.__call__ for event e: the results it can have
Rule_call(checkers, e) == Rule_call_outcomes([c \in checkers |-> RuleChecker(c, e)])

\* Permission.__call__ on plain predicates
Permission_checkers_call(checkers, e) ==
    "true" \in Permission_call_outcomes([c \in checkers |-> PermissionChecker(c, e)])

\* User.__call__: session in self.users and (perm is None or perm(bot, event))
User_call(users, checkers, e) ==
    e.session \in users /\ Permission_checkers_call(checkers, e)

\* A Permission is Permission(*checkers), or Permission(User(users, perm)) when
\* wrapped; Permission.__call__ on it
Permission_call(perm, e) ==
    IF perm.wrapped THEN User_call(perm.users, perm.checkers, e)
    ELSE Permission_checkers_call(perm.checkers, e)

Permission_new(checkers) == [wrapped |-> FALSE, users |-> {}, checkers |-> checkers]

\* User._clean_permission: the inner permission of a Permission(User(..)), else
\* the permission itself
User_clean_permission(perm) == perm.checkers

\* Permission(User.from_event(event, perm))
User_from_event(e, perm) ==
    [wrapped |-> TRUE, users |-> {e.session}, checkers |-> User_clean_permission(perm)]

(* ------------------------------ handlers ------------------------------ *)

\* the handlers of the plugins: how each was registered, Processor.handle() or
\* Processor.get(key, prompt), and the ways its body ends
Handler(h) ==
    CASE h = 1 -> [deco |-> "handle", key |-> NoValue, prompt |-> FALSE,
                   ends |-> {"return", "skip", "pause", "finish"}]
      [] h = 2 -> [deco |-> "handle", key |-> NoValue, prompt |-> FALSE,
                   ends |-> {"return", "type_mismatch", "reject", "error", "pause"}]
      [] h = 3 -> [deco |-> "handle", key |-> NoValue, prompt |-> FALSE,
                   ends |-> {"return", "stop", "stop_propagation"}]
      [] h = 4 -> [deco |-> "get", key |-> "key", prompt |-> TRUE,
                   ends |-> {"return", "reject"}]
      [] h = 6 -> [deco |-> "handle", key |-> NoValue, prompt |-> FALSE,
                   ends |-> {"return", "error"}]
      [] OTHER -> [deco |-> "handle", key |-> NoValue, prompt |-> FALSE,
                   ends |-> {"return", "pause", "stop"}]

\* the keys a handler's body assigns in the state it is called with: handler 6 of
\* the plugins does state['handled'] = True before it returns
HandlerWrites(h) == IF h = 6 THEN {"handled"} ELSE {}

\* the callable of the sub-dependency of handler 6, res = Depends(resource): a
\* generator function, which is its own key in the dependency cache
resource == 0

\* the sub-dependencies a handler's parameters declare with Depends(...)
HandlerDepends(h) == IF h = 6 THEN {resource} ELSE {}

\* whether the provider of handler h's parameter is marked validate: the plugins
\* write message: int = Depends(get_message), and Depends has validate=False
HandlerValidate(h) == FALSE

\* handle_event's ExitStack and the context managers made of generator
\* dependencies: those made, those entered, the stack's callbacks, those exited
NoContexts == [made |-> {}, entered |-> {}, callbacks |-> {}, exited |-> {}]

\* DependParam._solve of a generator dependency: the cached object if the dispatch
\* has one; else cm = contextmanager(call)(**sub_values) is made, cached and
\* returned as the parameter's value, and nothing is given to the stack
DependParam_solve_generator(cache, cx, call) ==
    IF call \in cache
    THEN [cache |-> cache, contexts |-> cx]
    ELSE [cache |-> cache \cup {call},
          contexts |-> [cx EXCEPT !.made = @ \cup {call}]]

\* the generator dependencies of handler h, resolved one after the other
DependParam_solve_generators(cache, cx, h) ==
    IF HandlerDepends(h) = {} THEN [cache |-> cache, contexts |-> cx]
    ELSE DependParam_solve_generator(cache, cx, resource)

\* ExitStack.__exit__: every callback of the stack is popped and exited
ExitStack_exit(cx) == [cx EXCEPT !.exited = @ \cup cx.callbacks, !.callbacks = {}]

\* Processor.state restricted to the keys the Processor itself reads and writes:
\* ARG_KEY.format(key), REJECT_TARGET, REJECT_CACHE_TARGET
EmptyState == [arg |-> [k \in ArgKeys |-> NoValue], target |-> NoValue, cache |-> NoValue]

(* ----------------------- the registered Processors -------------------- *)

\* a type updater of the plugins that returns event.get_type()
TypeOfEvent == "<event.get_type()>"

\* no permission updater registered
NoUpdater == [set |-> FALSE, permission |-> Permission_new({})]

\* a permission updater of the plugins: it returns Permission()
AnyoneUpdater == [set |-> TRUE, permission |-> Permission_new({})]

\* the ProcessorTypes the plugins register with Processor.new at load time
InitialTypes ==
    << [type |-> "", rule |-> {}, permission |-> Permission_new({}),
        priority |-> 1, block |-> FALSE, temp |-> FALSE, expire_time |-> 0,
        default_state |-> EmptyState,
        type_updater |-> TypeOfEvent,
        permission_updater |-> AnyoneUpdater,
        handlers |-> <<1, 2, 3>>],
       [type |-> "message-created", rule |-> {"is_m1"}, permission |-> Permission_new({}),
        priority |-> 2, block |-> TRUE, temp |-> FALSE, expire_time |-> 0,
        default_state |-> EmptyState,
        type_updater |-> "message-created",
        permission_updater |-> NoUpdater,
        handlers |-> <<4>>],
       [type |-> "", rule |-> {}, permission |-> Permission_new({"is_s1"}),
        priority |-> 2, block |-> FALSE, temp |-> FALSE, expire_time |-> 0,
        default_state |-> EmptyState,
        type_updater |-> NoValue,
        permission_updater |-> NoUpdater,
        handlers |-> <<5>>] >>


(* ------------------------------- state -------------------------------- *)

VARIABLES
    now,                    \* datetime.now()
    session_expire_timeout, \* bot.config.session_expire_timeout
    ptypes,                 \* every ProcessorType created: id -> its class attributes
    handlers,               \* id -> the class's handlers list (one list per class)
    processors,             \* the registry: priority -> list of ProcessorType ids
    dpc,                    \* per dispatcher: where its handle_event call is
    event,                  \* per dispatcher: the event being handled
    priorities,             \* per dispatcher: the levels still to iterate
    break_flag,             \* per dispatcher: handle_event's break_flag
    dependency_cache,       \* per dispatcher: the callables whose value is cached
    tasks,                  \* per dispatcher: id -> the check_and_run_processor task
    selected,               \* id -> how many times _run_processor instantiated it
    hooks,                  \* which of the sets of pre- and post-processors are not empty
    dispatch_state,         \* per dispatcher: the keys of handle_event's state dict
    event_pre,              \* per dispatcher: how the event pre-processor's call ended
    event_post,             \* per dispatcher: the calls of the event post-processor
    checkers,               \* the predicates of a Rule and a Permission, as outcomes
    rule_result,            \* what Rule.__call__ on them did
    permission_result,      \* what Permission.__call__ on them did
    units,                  \* the Tasks given to the pool: unit -> its Task and Future
    stop_signal,            \* thread -> whether its '__stop_signal' Event is set
    workers,                \* pool worker -> the unit its _worker loop is executing
    pool_tasks,             \* ThreadPoolExecutor._tasks, the queue of the workers
    submit_block,           \* ThreadPoolExecutor._submit_block
    gathered,               \* the call of gather: its _futures, its result list
    driver,                 \* Driver: should_exit, force_exit, where _serve is
    loaded,                 \* the registrations the plugins made, and how each ended
    contexts,               \* handle_event's ExitStack and the context managers made
    prefix,                 \* TrieRule.prefix: the registered prefixes and their values
    cmd,                    \* a message, its command parse and the check of a CommandRule
    built,                  \* an expression Permission(..) | .. and what it yields
    nested                  \* units that call gather inside units that are gathered

\* the configuration, which no step changes
config == <<session_expire_timeout, hooks>>

\* a Rule and a Permission called on their own
called == <<checkers, rule_result, permission_result>>

\* the commands: the trie of the prefixes and the parse of a message
commands == <<prefix, cmd>>

\* what a handle_event call keeps for the pre- and post-processors and the predicates
shared == <<dispatch_state, event_pre, event_post, contexts>>

\* the task runtime: the pool, its units and threads, gather and the driver
runtime == <<units, stop_signal, workers, pool_tasks, submit_block, gathered, driver>>

vars == <<now, session_expire_timeout, ptypes, handlers, processors, dpc, event,
          priorities, break_flag, dependency_cache, tasks, selected, hooks,
          dispatch_state, event_pre, event_post, checkers, rule_result, permission_result,
          units, stop_signal, workers, pool_tasks, submit_block, gathered, driver,
          loaded, contexts, prefix, cmd, built, nested>>

\* expire_time None and timedelta(0) are both false in "if expire_time and ..."
NoExpire == 0

NumInitial == Len(InitialTypes)

Ids == 1 .. (NumInitial + MaxContinuations)

\* the elements of a list
Elems(s) == {s[i] : i \in 1 .. Len(s)}

\* list.remove(x): the first occurrence goes; ValueError when absent, which both
\* callers of destroy() suppress
Remove(s, x) ==
    IF x \notin Elems(s) THEN s
    ELSE LET i == CHOOSE j \in 1 .. Len(s) : s[j] = x /\ \A m \in 1 .. (j - 1) : s[m] # x
         IN  SubSeq(s, 1, i - 1) \o SubSeq(s, i + 1, Len(s))

\* Processor.destroy: processors[cls.priority].remove(cls)
Processor_destroy(reg, p) ==
    [reg EXCEPT ![ptypes[p].priority] = Remove(@, p)]

RECURSIVE sorted_descending(_)
\* the keys in descending order
sorted_descending(S) ==
    IF S = {} THEN <<>>
    ELSE LET m == CHOOSE x \in S : \A y \in S : x >= y
         IN  <<m>> \o sorted_descending(S \ {m})

RECURSIVE sorted(_)
\* sorted(keys): ascending
sorted(S) ==
    IF S = {} THEN <<>>
    ELSE LET m == CHOOSE x \in S : \A y \in S : x <= y
         IN  <<m>> \o sorted(S \ {m})

\* a Processor.new that stores the creation time
Processor_new_expire_time_now(timeout, t) == IF timeout = 0 THEN NoExpire ELSE t

\* Processor.new's expire_time: expire_time and (datetime.now() + expire_time)
Processor_new_expire_time(timeout, t) ==
    IF timeout = 0 THEN NoExpire ELSE t + timeout

\* processors[priority].append(NewProcessor), on a defaultdict(list)
Processor_new_store(reg, priority, id) ==
    IF priority \in DOMAIN reg THEN [reg EXCEPT ![priority] = Append(@, id)]
    ELSE reg @@ (priority :> <<id>>)

NoEvent == [type |-> NoValue, session |-> NoValue, message |-> NoValue]

\* where a ProcessorType comes from: Processor.new at load time (kind NoValue), or
\* the run that paused or rejected: its ProcessorType, the type and session id of
\* its event, the handler that raised and the one after it in the run's chain
NoOrigin ==
    [kind |-> NoValue, from |-> 0, type |-> NoValue, session |-> NoValue,
     handler |-> 0, next |-> 0]

\* a ProcessorType that nothing refers to any more: out of the registry, its runs over
Collected ==
    [type |-> NoValue, rule |-> {}, permission |-> Permission_new({}), priority |-> 0,
     block |-> FALSE, temp |-> TRUE, expire_time |-> 0, default_state |-> EmptyState,
     type_updater |-> NoValue, permission_updater |-> NoUpdater, handlers |-> <<>>,
     origin |-> NoOrigin]

NoTask ==
    [pc |-> "check", level |-> 0, matched |-> FALSE, state |-> EmptyState,
     block |-> FALSE, current_handler |-> 0, result |-> NoValue,
     chain |-> <<>>, executed |-> <<>>, how |-> NoValue, sent |-> 0, created |-> 0,
     seen |-> {}, run_pre |-> NoValue, written |-> {}, calls |-> 0]

\* no pre-processor and no post-processor registered
NoHooks == [event_pre |-> FALSE, run_pre |-> FALSE, event_post |-> FALSE]

\* an event pre-processor, a run pre-processor and an event post-processor registered
AllHooks == [event_pre |-> TRUE, run_pre |-> TRUE, event_post |-> TRUE]

\* how the call of a registered pre-processor ends: it returns, or raises
\* IgnoredException
HookOutcomes == {"return", "ignore"}

\* the state once the plugins are loaded: types are the ProcessorTypes they
\* registered with Processor.new, hk the pre- and post-processors
Loaded(types, hk) ==
    /\ now = 1
    /\ session_expire_timeout \in Timeouts
    /\ ptypes = [i \in 1 .. Len(types) |->
                    [type |-> types[i].type,
                     rule |-> types[i].rule,
                     permission |-> types[i].permission,
                     priority |-> types[i].priority,
                     block |-> types[i].block,
                     temp |-> types[i].temp,
                     expire_time |-> types[i].expire_time,
                     default_state |-> types[i].default_state,
                     type_updater |-> types[i].type_updater,
                     permission_updater |-> types[i].permission_updater,
                     handlers |-> types[i].handlers,
                     origin |-> NoOrigin]]
    /\ handlers = [i \in 1 .. Len(types) |-> types[i].handlers]
    /\ processors = [pr \in {types[i].priority : i \in 1 .. Len(types)} |->
                        SelectSeq([i \in 1 .. Len(types) |-> i],
                                  LAMBDA i : types[i].priority = pr)]
    /\ dpc = [d \in Dispatchers |-> "idle"]
    /\ event = [d \in Dispatchers |-> NoEvent]
    /\ priorities = [d \in Dispatchers |-> <<>>]
    /\ break_flag = [d \in Dispatchers |-> FALSE]
    /\ dependency_cache = [d \in Dispatchers |-> {}]
    /\ tasks = [d \in Dispatchers |-> [i \in {} |-> NoTask]]
    /\ selected = [i \in 1 .. Len(types) |-> 0]
    /\ hooks = hk
    /\ dispatch_state = [d \in Dispatchers |-> {}]
    /\ event_pre = [d \in Dispatchers |-> NoValue]
    /\ event_post = [d \in Dispatchers |-> 0]
    /\ contexts = [d \in Dispatchers |-> NoContexts]

(* --------------------------- the task runtime ------------------------- *)

\* units of work given to the pool in one behaviour
MaxUnits == 2

\* ThreadPoolExecutor(max_workers)
max_workers == 1

Units == 1 .. MaxUnits

\* the pool's worker threads, started by _run_workers
Workers == 1 .. max_workers

\* the thread that submit(task, temp=True) starts for a unit
TempThread(u) == max_workers + u

\* the threads made by _Thread, each with a '__stop_signal' Event of its own
Threads == 1 .. (max_workers + MaxUnits)

\* the functions the units call: what they do in turn, whether they are wrapped by
\* @loop, and how they end if they get to their end; "spin" is a computation that
\* never ends and never calls sleep
Programs == {"compute", "fail", "nap", "poll", "spin"}

Program(name) ==
    CASE name = "compute" -> [code |-> <<"work">>, looped |-> FALSE, ends |-> "value"]
      [] name = "fail" -> [code |-> <<"work">>, looped |-> FALSE, ends |-> "error"]
      [] name = "nap" -> [code |-> <<"work", "sleep">>, looped |-> FALSE, ends |-> "value"]
      [] name = "poll" -> [code |-> <<"work">>, looped |-> TRUE, ends |-> "value"]
      [] OTHER -> [code |-> <<"spin">>, looped |-> FALSE, ends |-> "value"]

\* Task(call): future is a new Future, thread is None (0); how tells whether it was
\* submitted and where, cancelled what its future was when Task.cancel was first
\* called on it
Task_new(name) ==
    [program |-> name, pos |-> 0, thread |-> 0, future |-> "pending",
     outcome |-> NoValue, how |-> "new", cancelled |-> NoValue]

\* Future.done()
Future_done(f) == f \in {"cancelled", "cancelled_notified", "finished"}

\* None in gather's result list
None == [raised |-> FALSE, kind |-> "None", unit |-> 0]

\* no call of gather
NoGather ==
    [pc |-> "idle", return_exceptions |-> FALSE, futures |-> <<>>, result |-> <<>>,
     taken |-> {}, raised |-> None]

\* Driver.__init__ and _serve up to _main_thread
Serving == [pc |-> "serving", should_exit |-> FALSE, force_exit |-> FALSE, tasks |-> {}]

\* the pool as run_executor leaves it, and units whose programs are names
Started(names) ==
    /\ units = [u \in Units |-> Task_new(names[u])]
    /\ stop_signal = [t \in Threads |-> FALSE]
    /\ workers = [w \in Workers |-> 0]
    /\ pool_tasks = <<>>
    /\ submit_block = FALSE
    /\ gathered = NoGather
    /\ driver = Serving

(* ------------------------------ commands ------------------------------ *)

\* the length of the texts of the first segment, and the prefixes the trie holds
MaxText == 4
MaxPrefixes == 2

\* a str is the sequence of its characters; an Optional[...] that is None is
\* Absent, one that holds v is Present(v)
Chars == {"/", "a", " "}
Absent == <<>>
Present(v) == <<v>>

RECURSIVE Strings(_)
Strings(n) ==
    IF n = 0 THEN {<<>>}
    ELSE LET shorter == Strings(n - 1)
         IN  shorter \cup {Append(t, c) : t \in {x \in shorter : Len(x) = n - 1}, c \in Chars}

\* a segment of a message: a text with its str, or an element that is no text
TextSegment(t) == [is_text |-> TRUE, str |-> t]
ImageSegment == [is_text |-> FALSE, str |-> <<>>]

\* the messages of the message-created events: no segment at all, or a text
\* followed by nothing, by a second text or by an element
CmdMessages ==
    {<<>>}
        \cup {<<TextSegment(t)>> : t \in Strings(MaxText)}
        \cup {<<TextSegment(t), s>> :
                 t \in Strings(MaxText),
                 s \in {TextSegment(<<" ">>), TextSegment(<<"a">>), ImageSegment}}

\* the commands and command starts of the plugins; TRIE_VALUE(command_start, command)
CommandNames == {<<"a">>, <<"a", "a">>, <<"/", "a">>}
CommandStarts == {<<"/">>, <<>>}
TRIE_VALUE(start, command) == [command_start |-> start, command |-> command]

\* str.lstrip()
RECURSIVE lstrip(_)
lstrip(t) == IF t # <<>> /\ Head(t) = " " THEN lstrip(Tail(t)) ELSE t

\* str.startswith
startswith(t, p) == Len(p) <= Len(t) /\ SubSeq(t, 1, Len(p)) = p

\* a longest_prefix that returns the shortest of the registered prefixes of the text
CharTrie_shortest_prefix(trie, t) ==
    LET found == {k \in DOMAIN trie : startswith(t, k)}
    IN  IF found = {} THEN Absent
        ELSE LET k == CHOOSE x \in found : \A y \in found : Len(y) >= Len(x)
             IN  Present([key |-> k, value |-> trie[k]])

\* CharTrie.longest_prefix(text): the longest key of the trie that the text
\* starts with, with its value, or a step that is false
CharTrie_longest_prefix(trie, t) ==
    LET found == {k \in DOMAIN trie : startswith(t, k)}
    IN  IF found = {} THEN Absent
        ELSE LET k == CHOOSE x \in found : \A y \in found : Len(y) <= Len(x)
             IN  Present([key |-> k, value |-> trie[k]])

\* a trie in which a second registration of a prefix replaces the first
TrieRule_add_prefix_overwrite(trie, p, v) ==
    [k \in DOMAIN trie \cup {p} |-> IF k = p THEN v ELSE trie[k]]

\* TrieRule.add_prefix: a prefix in the trie is left as it is, with a warning
TrieRule_add_prefix(trie, p, v) ==
    IF p \in DOMAIN trie THEN trie
    ELSE [k \in DOMAIN trie \cup {p} |-> IF k = p THEN v ELSE trie[k]]

\* TrieRule.del_prefix
TrieRule_del_prefix(trie, p) == [k \in DOMAIN trie \ {p} |-> trie[k]]

\* CMD_RESULT with every entry None
EmptyResult ==
    [command |-> Absent, raw_command |-> Absent, command_arg |-> Absent,
     command_start |-> Absent, command_whitespace |-> Absent]

\* the while loop of get_value: as long as the argument text is blank and the
\* next segment is a text, that segment is popped and its str appended
RECURSIVE collect_arg(_, _)
collect_arg(arg_str, msg) ==
    IF lstrip(arg_str) = <<>> /\ msg # <<>> /\ Head(msg).is_text
    THEN collect_arg(arg_str \o Head(msg).str, Tail(msg))
    ELSE [arg_str |-> arg_str, msg |-> msg]

\* TrieRule.get_value on a message-created event with this message: what
\* state[PREFIX_KEY] holds when it returns or raises, and whether it raised;
\* message[0] of a message without segments raises IndexError
TrieRule_get_value(trie, message) ==
    IF message = <<>> THEN [state |-> EmptyResult, raised |-> TRUE]
    ELSE IF ~Head(message).is_text THEN [state |-> EmptyResult, raised |-> FALSE]
    ELSE LET segment_text == lstrip(Head(message).str)
             pf == CharTrie_longest_prefix(trie, segment_text)
         IN  IF pf = Absent THEN [state |-> EmptyResult, raised |-> FALSE]
             ELSE LET key == pf[1].key
                      c == collect_arg(SubSeq(segment_text, Len(key) + 1,
                                              Len(segment_text)),
                                       Tail(message))
                      arg_str_stripped == lstrip(c.arg_str)
                      has_arg == arg_str_stripped # <<>> \/ c.msg # <<>>
                      stripped_len == Len(c.arg_str) - Len(arg_str_stripped)
                  IN  [state |->
                         [command |-> Present(pf[1].value.command),
                          raw_command |-> Present(key),
                          command_start |-> Present(pf[1].value.command_start),
                          command_whitespace |->
                              IF has_arg /\ stripped_len >= 0
                              THEN Present(SubSeq(c.arg_str, 1, stripped_len))
                              ELSE Absent,
                          command_arg |->
                              Present(IF arg_str_stripped # <<>>
                                      THEN <<TextSegment(arg_str_stripped)>> \o c.msg
                                      ELSE c.msg)],
                       raised |-> FALSE]

\* the force_whitespace of a CommandRule: None, a bool or a str
ForceWhitespaces ==
    {[kind |-> "None", bool |-> FALSE, str |-> <<>>],
     [kind |-> "bool", bool |-> TRUE, str |-> <<>>],
     [kind |-> "bool", bool |-> FALSE, str |-> <<>>],
     [kind |-> "str", bool |-> FALSE, str |-> <<" ">>]}

\* the rules command(cmd, command_start=..., force_whitespace=...) returns
CommandRules == [cmds : {{c} : c \in CommandNames}, force_whitespace : ForceWhitespaces]

\* CommandRule.__call__ with cmd, cmd_arg and cmd_whitespace read from the state
CommandRule_call(rule, st) ==
    IF st.command = Absent \/ st.command[1] \notin rule.cmds THEN FALSE
    ELSE IF rule.force_whitespace.kind = "None"
            \/ st.command_arg = Absent \/ st.command_arg[1] = <<>>
    THEN TRUE
    ELSE IF rule.force_whitespace.kind = "str"
    THEN st.command_whitespace = Present(rule.force_whitespace.str)
    ELSE rule.force_whitespace.bool = (st.command_whitespace # Absent)

\* no message is parsed; warned is the last registration that was refused with
\* logger.warn
NoCmd ==
    [pc |-> "idle", message |-> <<>>, state |-> EmptyResult, logged |-> FALSE,
     rule |-> Absent, observed |-> EmptyResult, matched |-> FALSE, warned |-> Absent]

\* no expression of Permissions is evaluated
NoBuilt == [pc |-> "idle", left |-> {}, right |-> Absent, error |-> NoValue, checkers |-> {}]

\* no command is registered and no message parsed, no Permission combined
NoCommands == prefix = <<>> /\ cmd = NoCmd /\ built = NoBuilt

(* --------------------------- nested gathers --------------------------- *)

\* the calls in one tree of gathers, and the sizes of the pool
MaxNodes == 4
MaxPool == 2

Nodes == 1 .. MaxNodes

\* the calls made in one behaviour: parent[n] is the call whose gather has n among
\* its arguments, 0 for a call given to create_task (bot.handle_event)
Trees == {f \in [Nodes -> 0 .. MaxNodes] : \A n \in Nodes : f[n] < n}

\* a pool of size workers and the calls of tree f, none submitted
Nested_new(size, f) ==
    [size |-> size, parent |-> f, queue |-> <<>>,
     pc |-> [n \in Nodes |-> "new"],
     thread |-> [n \in Nodes |-> 0],
     outcome |-> [n \in Nodes |-> NoValue]]

\* no call is made
NoNested ==
    [size |-> 1, parent |-> <<>>, queue |-> <<>>, pc |-> <<>>, thread |-> <<>>,
     outcome |-> <<>>]

\* the arguments of the gather that call n makes
Children(n) == {c \in Nodes : nested.parent[c] = n}

\* handle_event gathers with return_exceptions=True; Rule.__call__,
\* Permission.__call__ and Dependent.solve gather without it
Nested_return_exceptions(n) == nested.parent[n] = 0

\* a gather that gives its Tasks to the workers of the pool: submit(task)
gather_submit_queue == FALSE

\* the temp argument of gather's submit: get_pool_executor().submit(sync_future, True)
gather_submit_temp == TRUE

\* worker w of the pool is in self._tasks.get()
Nested_idle(w) ==
    ~\E n \in Nodes : nested.thread[n] = w /\ nested.pc[n] \in {"running", "waiting", "returned"}

\* nothing is given to the pool
Unused == Started([u \in Units |-> "compute"])

\* no Rule and no Permission is called on its own, the runtime is not used
Uncalled ==
    /\ checkers = <<>>
    /\ rule_result = NoValue
    /\ permission_result = NoValue
    /\ Unused
    /\ loaded = <<>>
    /\ NoCommands
    /\ nested = NoNested

Init == Loaded(InitialTypes, NoHooks) /\ Uncalled


(* ------------------------- Processor.run, _run ------------------------ *)

\* Processor.update_type: the type updater's value, else 'message'
Processor_update_type(pt, e) ==
    CASE pt.type_updater = NoValue -> "message"
      [] pt.type_updater = TypeOfEvent -> e.type
      [] OTHER -> pt.type_updater

\* Processor.update_permission: the permission updater's value, else
\* Permission(User.from_event(event, perm=self.permission))
Processor_update_permission(pt, e) ==
    IF pt.permission_updater.set THEN pt.permission_updater.permission
    ELSE User_from_event(e, pt.permission)

\* a resolve_reject that appends the current handler
resolve_reject_handlers_appended(hs, h) == Append(hs, h)

\* Processor.resolve_reject on the handlers list: insert(0, current_handler)
resolve_reject_handlers(hs, h) == <<h>> \o hs

\* a resolve_reject that drops REJECT_CACHE_TARGET without setting REJECT_TARGET
resolve_reject_state_dropped(st) == [st EXCEPT !.cache = NoValue]

\* Processor.resolve_reject on the state: REJECT_CACHE_TARGET moves to REJECT_TARGET
resolve_reject_state(st) ==
    IF st.cache # NoValue THEN [st EXCEPT !.target = st.cache, !.cache = NoValue]
    ELSE st

\* _key_getter of Processor.get(key, prompt): the state it leaves, whether it
\* raised RejectedException, and the prompts it sent
key_getter(st, e, key, prompt) ==
    LET st1 == [st EXCEPT !.cache = key]
    IN  IF st1.target = key
        THEN [state |-> [st1 EXCEPT !.arg[key] = e.message], rejected |-> FALSE, sent |-> 0]
        ELSE IF st1.arg[key] # NoValue
        THEN [state |-> st1, rejected |-> FALSE, sent |-> 0]
        ELSE [state |-> st1, rejected |-> TRUE, sent |-> IF prompt THEN 1 ELSE 0]

\* DependParam._solve of Depends(_key_getter): the cached value if the dispatch has
\* one; else dependency_cache[call] = call(...) and then return call(...) again;
\* calls is the number of times the callable was invoked
DependParam_solve(st, e, h, cache) ==
    IF h \in cache
    THEN [state |-> st, rejected |-> FALSE, sent |-> 0, cache |-> cache, calls |-> 0]
    ELSE LET r1 == key_getter(st, e, Handler(h).key, Handler(h).prompt)
             r2 == key_getter(r1.state, e, Handler(h).key, Handler(h).prompt)
         IN  IF r1.rejected
             THEN [state |-> r1.state, rejected |-> TRUE, sent |-> r1.sent,
                   cache |-> cache, calls |-> 1]
             ELSE [state |-> r2.state, rejected |-> r2.rejected,
                   sent |-> r1.sent + r2.sent, cache |-> cache \cup {h}, calls |-> 2]

\* no exception
NoError == [class |-> NoValue, param |-> NoValue, value |-> NoValue]

\* a check_field_type that lets validate_python's ValueError through
check_field_type_unconverted(field, value, valid) ==
    IF valid THEN NoError
    ELSE [class |-> "ValueError", param |-> field, value |-> value]

\* check_field_type: TypeAdapter(...).validate_python(value), whose ValueError is
\* replaced by TypeMisMatch(field, value); valid is whether the value validates
check_field_type(field, value, valid) ==
    IF valid THEN NoError
    ELSE [class |-> "TypeMisMatch", param |-> field, value |-> value]

\* Dependent._solve_field of the parameter of the handlers, message: its value is
\* the event's message and check_field_type is called on it before param.validate
\* is looked at, which only chooses what is returned, "v if param.validate else
\* value"
Dependent__solve_field(e, valid, validate) ==
    check_field_type("message", e.message, valid)

\* the way a handler's call ends when the resolution of its parameters raised x:
\* TypeMisMatch is a SkippedException, any other exception is an error
Dependent_call_raises(x) == IF x.class = "TypeMisMatch" THEN "type_mismatch" ELSE "error"

\* ArgParam._solve: processor.get_arg(key)
ArgParam_solve(st, h) == IF Handler(h).deco = "get" THEN st.arg[Handler(h).key] ELSE NoValue

\* a continuation that loses the first of the handlers it is given
Processor_new_handlers_dropped(hs) == IF hs = <<>> THEN hs ELSE Tail(hs)

\* the handlers a continuation is created with: a new list of the class's list
Processor_new_handlers(hs) == hs

\* a _run in which FinishedException is caught with SkippedException
Processor__run_after_finish(o) ==
    CASE o \in {"return", "stop", "skip", "type_mismatch", "finish"} -> "next"
      [] o = "pause" -> "paused"
      [] o = "reject" -> "rejected"
      [] OTHER -> "end"

\* a _run in which SkippedException is not caught inside the loop
Processor__run_after_skip(o) ==
    CASE o \in {"return", "stop"} -> "next"
      [] o = "pause" -> "paused"
      [] o = "reject" -> "rejected"
      [] OTHER -> "end"

\* what _run does with the way a handler ended: "next" goes on with the while
\* loop, "paused" and "rejected" leave through run()'s except clauses, the others
\* end the run
Processor__run_after(o) ==
    CASE o \in {"return", "stop", "skip", "type_mismatch"} -> "next"
      [] o = "pause" -> "paused"
      [] o = "reject" -> "rejected"
      [] OTHER -> "end"

\* the instance's block after a handler ended: stop() and StopPropagation set it
Processor__run_block(block, o) == block \/ o \in {"stop", "stop_propagation"}

\* _run_processor's last statement: if processor.block: raise StopPropagation
run_processor_result(block) == IF block THEN "StopPropagation" ELSE NoValue

\* the runs about to register a continuation
Suspended ==
    {dp \in Dispatchers \X Ids :
        /\ dp[2] \in DOMAIN tasks[dp[1]]
        /\ tasks[dp[1]][dp[2]].pc \in {"paused", "rejected"}}

\* an id of Ids is left for each of them and for one more
CanSuspend == Len(ptypes) + Cardinality(Suspended) < Cardinality(Ids)


(* ------------------------------ dispatch ------------------------------ *)

\* Processor.check_perm: event_type == (cls.type or event_type) and permission(..)
Processor_check_perm(pt, e) ==
    /\ e.type = (IF pt.type = "" THEN e.type ELSE pt.type)
    /\ Permission_call(pt.permission, e)

\* Processor.check_rule: event_type == (cls.type or event_type) and rule(..); the
\* results it can have, "error" an exception of the rule that leaves it
Processor_check_rule(pt, e) ==
    IF e.type = (IF pt.type = "" THEN e.type ELSE pt.type) THEN Rule_call(pt.rule, e)
    ELSE {"false"}

\* the keys the rule predicates of a ProcessorType write when check_rule calls them
Processor_rule_writes(pt, e) ==
    IF e.type = (IF pt.type = "" THEN e.type ELSE pt.type)
    THEN UNION {RuleWrites(c, e) : c \in pt.rule}
    ELSE {}

\* a test that takes a ProcessorType with an expire_time for live
Processor_expired_never(pt, t) == FALSE

\* _check_processor's expiry test
Processor_expired(pt, t) == pt.expire_time # NoExpire /\ t > pt.expire_time

\* a test of the results that takes any result for a StopPropagation
gather_break_always(results) == results # {}

\* handle_event's test of the gathered results of a level
gather_break(results) == "StopPropagation" \in results

\* the list handlers.pop(0) leaves
handlers_pop(hs) == Tail(hs)

\* the tasks handle_event creates for a level: one per ProcessorType of the level
level_tasks(reg, level) ==
    [p \in Elems(reg[level]) |-> [NoTask EXCEPT !.level = level]]

\* an end of a run that takes a handler's exception for a StopPropagation
EndRun_raising(t, how) ==
    [t EXCEPT !.pc = "done", !.how = how,
              !.result = run_processor_result(t.block \/ how = "error")]

\* the end of a run: _run_processor raises StopPropagation if the instance blocks
EndRun(t, how) ==
    [t EXCEPT !.pc = "done", !.how = how, !.result = run_processor_result(t.block)]

\* _apply_event_preprocessors and _apply_run_preprocessors, whether to go on: True
\* when none is registered, False when the gather of
\* Task(run_with_catch, Task(processor), SkippedException) raises, else True
apply_preprocessors(registered, o) ==
    \/ ~registered
    \/ \A g \in gather(<<run_with_catch(Task_call(Call(o)), {"skip"}, NoValue)>>) :
          ~g.raised

\* event post-processors that are not called
apply_event_postprocessors_skipped(registered, n) == n

\* _apply_event_postprocessors: the registered post-processors are called
apply_event_postprocessors(registered, n) == IF registered THEN n + 1 ELSE n

\* how the call of the pre-processor ends, None when none is registered
PreOutcomes(registered) == IF registered THEN HookOutcomes ELSE {NoValue}

\* handle_event up to the loop over the levels: state = {}, the event
\* pre-processors, whose call ends in pre, and sorted(processors.keys())
handle_event(d, e, pre) ==
    /\ dpc[d] = "idle"
    /\ pre \in PreOutcomes(hooks.event_pre)
    /\ dpc' = [dpc EXCEPT ![d] = IF apply_preprocessors(hooks.event_pre, pre)
                                 THEN "level" ELSE "vetoed"]
    /\ event' = [event EXCEPT ![d] = e]
    /\ event_pre' = [event_pre EXCEPT ![d] = pre]
    /\ event_post' = [event_post EXCEPT ![d] = 0]
    /\ dispatch_state' = [dispatch_state EXCEPT ![d] = {}]
    /\ priorities' = [priorities EXCEPT ![d] = sorted(DOMAIN processors)]
    /\ break_flag' = [break_flag EXCEPT ![d] = FALSE]
    /\ dependency_cache' = [dependency_cache EXCEPT ![d] = {}]
    /\ contexts' = [contexts EXCEPT ![d] = NoContexts]
    /\ tasks' = [tasks EXCEPT ![d] = [i \in {} |-> NoTask]]
    /\ UNCHANGED <<now, config, called, runtime, commands, built, nested, loaded, ptypes, handlers, processors, selected>>

\* the loop goes to the next level and starts the level's tasks
handle_event_level(d) ==
    /\ dpc[d] = "level"
    /\ ~break_flag[d]
    /\ priorities[d] # <<>>
    /\ dpc' = [dpc EXCEPT ![d] = "gather"]
    /\ tasks' = [tasks EXCEPT
                    ![d] = level_tasks(processors, Head(priorities[d])) @@ @]
    /\ UNCHANGED <<now, config, called, runtime, commands, built, nested, loaded, shared, ptypes, handlers, processors, event,
                   priorities, break_flag, dependency_cache, selected>>

\* gather returns: every task of the level is over; a StopPropagation sets break_flag
handle_event_gather(d) ==
    /\ dpc[d] = "gather"
    /\ LET level == Head(priorities[d])
           mine == {p \in DOMAIN tasks[d] : tasks[d][p].level = level}
       IN  /\ \A p \in mine : tasks[d][p].pc = "done"
           /\ break_flag' = [break_flag EXCEPT
                                ![d] = gather_break({tasks[d][p].result : p \in mine})]
    /\ priorities' = [priorities EXCEPT ![d] = Tail(@)]
    /\ dpc' = [dpc EXCEPT ![d] = "level"]
    /\ UNCHANGED <<now, config, called, runtime, commands, built, nested, loaded, shared, ptypes, handlers, processors, event,
                   dependency_cache, tasks, selected>>

\* the loop ends, break_flag or no level left, and _apply_event_postprocessors
handle_event_break(d) ==
    /\ dpc[d] = "level"
    /\ break_flag[d] \/ priorities[d] = <<>>
    /\ dpc' = [dpc EXCEPT ![d] = "post"]
    /\ event_post' = [event_post EXCEPT
                         ![d] = apply_event_postprocessors(hooks.event_post, @)]
    /\ UNCHANGED <<now, config, called, runtime, commands, built, nested, loaded, contexts, dispatch_state, event_pre, ptypes, handlers,
                   processors, event, priorities, break_flag, dependency_cache, tasks,
                   selected>>

\* the ProcessorTypes still referred to once dispatcher d has returned: those of
\* the registry and those of the tasks of the other dispatchers
Referenced(d) ==
    {i \in 1 .. Len(ptypes) : ~ptypes[i].temp}
        \cup UNION {Elems(processors[pr]) : pr \in DOMAIN processors}
        \cup UNION {DOMAIN tasks[o] : o \in Dispatchers \ {d}}

\* handle_event returns, after the post-processors or at the pre-processors' veto:
\* its locals go, and with them the last references to the temp ProcessorTypes
\* that were destroyed
handle_event_return(d) ==
    /\ dpc[d] \in {"post", "vetoed"}
    /\ dpc' = [dpc EXCEPT ![d] = "idle"]
    /\ event' = [event EXCEPT ![d] = NoEvent]
    /\ priorities' = [priorities EXCEPT ![d] = <<>>]
    /\ break_flag' = [break_flag EXCEPT ![d] = FALSE]
    /\ dependency_cache' = [dependency_cache EXCEPT ![d] = {}]
    /\ tasks' = [tasks EXCEPT ![d] = [i \in {} |-> NoTask]]
    /\ ptypes' = [i \in 1 .. Len(ptypes) |->
                    IF i \in Referenced(d) THEN ptypes[i] ELSE Collected]
    /\ handlers' = [i \in 1 .. Len(handlers) |->
                      IF i \in Referenced(d) THEN handlers[i] ELSE <<>>]
    /\ dispatch_state' = [dispatch_state EXCEPT ![d] = {}]
    /\ event_pre' = [event_pre EXCEPT ![d] = NoValue]
    /\ event_post' = [event_post EXCEPT ![d] = 0]
    /\ contexts' = [contexts EXCEPT ![d] = ExitStack_exit(@)]
    /\ UNCHANGED <<now, config, called, runtime, commands, built, nested, loaded, processors, selected>>

\* _check_processor: an expired ProcessorType is destroyed; else check_perm, and
\* check_rule if it passed, an exception of either counting as a failed check; the
\* rule predicates are called with handle_event's state dict
check_processor(d, p) ==
    /\ p \in DOMAIN tasks[d]
    /\ tasks[d][p].pc = "check"
    /\ LET expired == Processor_expired(ptypes[p], now)
           perm == ~expired /\ Processor_check_perm(ptypes[p], event[d])
           written == IF perm THEN Processor_rule_writes(ptypes[p], event[d]) ELSE {}
       IN  \E rule \in Processor_check_rule(ptypes[p], event[d]) :
               LET ok == perm /\ rule = "true"
               IN  /\ processors' = IF expired THEN Processor_destroy(processors, p)
                                    ELSE processors
                   /\ dispatch_state' = [dispatch_state EXCEPT ![d] = @ \cup written]
                   /\ tasks' = [tasks EXCEPT ![d][p] =
                                   [@ EXCEPT !.pc = IF ok THEN "select" ELSE "done",
                                             !.matched = ok,
                                             !.seen = IF perm THEN dispatch_state[d]
                                                      ELSE {}]]
    /\ UNCHANGED <<now, config, called, runtime, commands, built, nested, loaded, contexts, event_pre, event_post, ptypes, handlers, dpc,
                   event, priorities, break_flag, dependency_cache, selected>>

(* -------------------------- running a Processor ----------------------- *)

\* _run_processor up to the first test of "while self.handlers": a temp type is
\* destroyed (ValueError suppressed), the instance copies the default state, the
\* run pre-processors, whose call ends in pre, may end it there, and _run updates
\* the instance's state with handle_event's state dict
run_processor(d, p, pre) ==
    /\ p \in DOMAIN tasks[d]
    /\ tasks[d][p].pc = "select"
    /\ pre \in PreOutcomes(hooks.run_pre)
    /\ processors' = IF ptypes[p].temp THEN Processor_destroy(processors, p)
                     ELSE processors
    /\ selected' = [selected EXCEPT ![p] = IF ptypes[p].temp THEN @ + 1 ELSE @]
    /\ LET t == [tasks[d][p] EXCEPT !.state = ptypes[p].default_state,
                                    !.block = ptypes[p].block,
                                    !.chain = handlers[p],
                                    !.run_pre = pre]
       IN  tasks' = [tasks EXCEPT ![d][p] =
                        IF ~apply_preprocessors(hooks.run_pre, pre)
                        THEN [t EXCEPT !.pc = "done", !.how = "ignored"]
                        ELSE IF handlers[p] = <<>>
                        THEN EndRun([t EXCEPT !.seen = dispatch_state[d]], "exhausted")
                        ELSE [t EXCEPT !.pc = "handler", !.seen = dispatch_state[d]]]
    /\ UNCHANGED <<now, config, called, runtime, commands, built, nested, loaded, shared, ptypes, handlers, dpc, event,
                   priorities, break_flag, dependency_cache>>

\* one turn of _run's loop: handlers.pop(0), the handler's parameters with their
\* sub-dependencies, its body
\* ending in outcome o, and the next test of "while self.handlers"; the handler is
\* called with state=self.state, so what it assigns goes to the instance's dict
Processor_run_handler(d, p, o) ==
    /\ p \in DOMAIN tasks[d]
    /\ tasks[d][p].pc = "handler"
    /\ handlers[p] # <<>>
    /\ LET t == tasks[d][p]
           h == Head(handlers[p])
           r == IF Handler(h).deco = "get"
                THEN DependParam_solve(t.state, event[d], h, dependency_cache[d])
                ELSE [state |-> t.state, rejected |-> FALSE, sent |-> 0,
                      cache |-> dependency_cache[d], calls |-> 0]
           g == DependParam_solve_generators(r.cache, contexts[d], h)
           x == IF r.rejected THEN NoError
                ELSE Dependent__solve_field(event[d], o # "type_mismatch",
                                            HandlerValidate(h))
           body == ~r.rejected /\ x = NoError
           out == IF r.rejected THEN "reject"
                  ELSE IF x # NoError THEN Dependent_call_raises(x) ELSE o
           after == Processor__run_after(out)
           t1 == [t EXCEPT !.state = r.state,
                           !.current_handler = h,
                           !.sent = @ + r.sent,
                           !.calls = @ + r.calls,
                           !.block = Processor__run_block(@, out),
                           !.written = IF body /\ out = "return"
                                       THEN @ \cup HandlerWrites(h) ELSE @,
                           !.executed = Append(@, [handler |-> h, outcome |-> out,
                                                   body |-> body, raised |-> x,
                                                   arg |-> IF body
                                                           THEN ArgParam_solve(r.state, h)
                                                           ELSE NoValue])]
       IN  /\ o \in Handler(h).ends
           /\ r.rejected => o = "reject"
           /\ out \in {"pause", "reject"} => CanSuspend
           /\ handlers' = [handlers EXCEPT ![p] = handlers_pop(@)]
           /\ dependency_cache' = [dependency_cache EXCEPT ![d] = g.cache]
           /\ contexts' = [contexts EXCEPT ![d] = g.contexts]
           /\ tasks' = [tasks EXCEPT ![d][p] =
                 CASE after = "paused" -> [t1 EXCEPT !.pc = "paused"]
                   [] after = "rejected" -> [t1 EXCEPT !.pc = "rejected"]
                   [] after = "end" -> EndRun(t1, out)
                   [] OTHER -> IF handlers_pop(handlers[p]) = <<>>
                               THEN EndRun(t1, "exhausted")
                               ELSE [t1 EXCEPT !.pc = "handler"]]
    /\ UNCHANGED <<now, config, called, runtime, commands, built, nested, loaded, dispatch_state, event_pre, event_post,
                   ptypes, processors, dpc, event, priorities, break_flag, selected>>

\* handlers.pop(0) on a list that another run of the same class emptied after this
\* run tested it: IndexError, which _run_processor logs
Processor_run_empty(d, p) ==
    /\ p \in DOMAIN tasks[d]
    /\ tasks[d][p].pc = "handler"
    /\ handlers[p] = <<>>
    /\ tasks' = [tasks EXCEPT ![d][p] = EndRun(@, "error")]
    /\ UNCHANGED <<now, config, called, runtime, commands, built, nested, loaded, shared, ptypes, handlers, processors, dpc,
                   event, priorities, break_flag, dependency_cache, selected>>

\* run()'s except RejectedException / except PausedException: resolve_reject for a
\* reject, update_type, update_permission, Processor.new of the continuation
Processor_run_new(d, p) ==
    /\ p \in DOMAIN tasks[d]
    /\ tasks[d][p].pc \in {"paused", "rejected"}
    /\ LET t == tasks[d][p]
           rejected == t.pc = "rejected"
           id == Len(ptypes) + 1
           hs == IF rejected THEN resolve_reject_handlers(handlers[p], t.current_handler)
                 ELSE handlers[p]
           st == IF rejected THEN resolve_reject_state(t.state) ELSE t.state
           new == [type |-> Processor_update_type(ptypes[p], event[d]),
                   rule |-> {},
                   permission |-> Processor_update_permission(ptypes[p], event[d]),
                   priority |-> 0,
                   block |-> TRUE,
                   temp |-> TRUE,
                   expire_time |-> Processor_new_expire_time(session_expire_timeout, now),
                   default_state |-> st,
                   type_updater |-> ptypes[p].type_updater,
                   permission_updater |-> ptypes[p].permission_updater,
                   handlers |-> Processor_new_handlers(hs),
                   origin |-> [kind |-> IF rejected THEN "reject" ELSE "pause",
                               from |-> p, type |-> event[d].type,
                               session |-> event[d].session,
                               handler |-> t.current_handler,
                               next |-> IF Len(t.executed) < Len(t.chain)
                                        THEN t.chain[Len(t.executed) + 1] ELSE 0]]
       IN  /\ ptypes' = Append(ptypes, new)
           /\ handlers' = Append([handlers EXCEPT ![p] = hs], Processor_new_handlers(hs))
           /\ selected' = Append(selected, 0)
           /\ processors' = Processor_new_store(processors, 0, id)
           /\ tasks' = [tasks EXCEPT ![d][p] =
                           EndRun([t EXCEPT !.state = st, !.created = id],
                                  IF rejected THEN "reject" ELSE "pause")]
    /\ UNCHANGED <<now, config, called, runtime, commands, built, nested, loaded, shared, dpc, event, priorities, break_flag,
                   dependency_cache>>

\* the runs about to read datetime.now(): _check_processor of a ProcessorType with
\* an expire_time, and Processor.new with a non-zero timeout
ReadsClock ==
    {dp \in Dispatchers \X (1 .. Len(ptypes)) :
        /\ dp[2] \in DOMAIN tasks[dp[1]]
        /\ \/ /\ tasks[dp[1]][dp[2]].pc = "check"
              /\ ptypes[dp[2]].expire_time # NoExpire
           \/ /\ tasks[dp[1]][dp[2]].pc \in {"paused", "rejected"}
              /\ session_expire_timeout # 0}

\* time passes; the steps that do not read the clock commute with it, so it is
\* moved only in front of one that does
Tick ==
    /\ now < MaxTime
    /\ ReadsClock # {}
    /\ now' = now + 1
    /\ UNCHANGED <<config, called, runtime, commands, built, nested, loaded, shared, ptypes, handlers, processors, dpc, event,
                   priorities, break_flag, dependency_cache, tasks, selected>>

(* --------------------------- specifications --------------------------- *)

\* what the thread of one handle_event call and the threads gather starts for it do
\* once the call is made
Step(d) ==
    \/ handle_event_level(d)
    \/ handle_event_gather(d)
    \/ handle_event_break(d)
    \/ handle_event_return(d)
    \/ \E p \in Ids : check_processor(d, p)
    \/ \E p \in Ids : \E pre \in HookOutcomes \cup {NoValue} : run_processor(d, p, pre)
    \/ \E p \in Ids : \E o \in Outcomes : Processor_run_handler(d, p, o)
    \/ \E p \in Ids : Processor_run_new(d, p)

\* the adapter calls handle_event for one event at a time
Next ==
    \/ Tick
    \/ \E e \in Events : \E pre \in HookOutcomes \cup {NoValue} : handle_event(1, e, pre)
    \/ Step(1)

Spec == Init /\ [][Next]_vars

\* Adapter._loop: create_task(bot.handle_event, event) for each event received, so
\* the calls run on the workers of the pool at the same time; the clock is that
\* of Init for all of them, the expiry of the Processors being Spec's matter
NextConc ==
    \/ \E d \in Dispatchers : \E e \in ConcEvents : handle_event(d, e, NoValue)
    \/ \E d \in Dispatchers : Step(d)
    \/ \E d \in Dispatchers : \E p \in Ids : Processor_run_empty(d, p)

SpecConc == Init /\ [][NextConc]_vars

\* the ProcessorTypes of plugins whose predicates raise and write to the state: a
\* startswith rule, a permission and a rule that fail on events without a message
HookTypes ==
    << [type |-> "", rule |-> {"startswith_m1"}, permission |-> Permission_new({}),
        priority |-> 1, block |-> FALSE, temp |-> FALSE, expire_time |-> 0,
        default_state |-> EmptyState,
        type_updater |-> NoValue,
        permission_updater |-> NoUpdater,
        handlers |-> <<6>>],
       [type |-> "", rule |-> {}, permission |-> Permission_new({"is_member"}),
        priority |-> 1, block |-> FALSE, temp |-> FALSE, expire_time |-> 0,
        default_state |-> EmptyState,
        type_updater |-> NoValue,
        permission_updater |-> NoUpdater,
        handlers |-> <<5>>],
       [type |-> "", rule |-> {"has_text"}, permission |-> Permission_new({}),
        priority |-> 2, block |-> FALSE, temp |-> FALSE, expire_time |-> 0,
        default_state |-> EmptyState,
        type_updater |-> NoValue,
        permission_updater |-> NoUpdater,
        handlers |-> <<6>>] >>

\* those plugins loaded, with an event pre-processor, a run pre-processor and an
\* event post-processor
InitHooks == Loaded(HookTypes, AllHooks) /\ Uncalled

SpecHooks == InitHooks /\ [][Next]_vars

\* a bot whose plugins register one Processor, which asks for an argument with
\* Processor.get: without type updater, or with one that returns the type it handles
SingleTypes ==
    {[type |-> "message-created", rule |-> {}, permission |-> Permission_new({}),
      priority |-> 1, block |-> TRUE, temp |-> FALSE, expire_time |-> 0,
      default_state |-> EmptyState,
      type_updater |-> updater,
      permission_updater |-> NoUpdater,
      handlers |-> <<4>>] : updater \in {NoValue, "message-created"}}

InitSingle == Uncalled /\ \E pt \in SingleTypes : Loaded(<<pt>>, NoHooks)

SpecSingle == InitSingle /\ [][Next]_vars

\* plugins that register a Processor with a negative priority, whose handlers
\* pause and whose type updater returns the event's type, and one with priority 0
NegativeTypes ==
    << [type |-> "", rule |-> {}, permission |-> Permission_new({}),
        priority |-> -1, block |-> FALSE, temp |-> FALSE, expire_time |-> 0,
        default_state |-> EmptyState,
        type_updater |-> TypeOfEvent,
        permission_updater |-> NoUpdater,
        handlers |-> <<5, 5>>],
       [type |-> "", rule |-> {"is_m1"}, permission |-> Permission_new({}),
        priority |-> 0, block |-> FALSE, temp |-> FALSE, expire_time |-> 0,
        default_state |-> EmptyState,
        type_updater |-> NoValue,
        permission_updater |-> NoUpdater,
        handlers |-> <<3>>] >>

InitNegative == Loaded(NegativeTypes, NoHooks) /\ Uncalled

SpecNegative == InitNegative /\ [][Next]_vars

\* what the dispatch of the events reads and writes
dispatch == <<now, ptypes, handlers, processors, dpc, event, priorities, break_flag,
              dependency_cache, tasks, selected>>

\* Rule(*checkers)(bot, event, state), the predicates ending as checkers tells
Rule_called ==
    /\ rule_result = NoValue
    /\ rule_result' \in Rule_call_outcomes(checkers)
    /\ UNCHANGED <<config, runtime, commands, built, nested, loaded, shared, dispatch, checkers, permission_result>>

\* Permission(*checkers)(bot, event), the predicates ending as checkers tells
Permission_called ==
    /\ permission_result = NoValue
    /\ permission_result' \in Permission_call_outcomes(checkers)
    /\ UNCHANGED <<config, runtime, commands, built, nested, loaded, shared, dispatch, checkers, rule_result>>

\* a Rule and a Permission of any predicates, each called once
InitCalled ==
    /\ Loaded(InitialTypes, NoHooks)
    /\ Unused
    /\ loaded = <<>>
    /\ NoCommands
    /\ nested = NoNested
    /\ checkers \in CheckerOutcomes
    /\ rule_result = NoValue
    /\ permission_result = NoValue

NextCalled == Rule_called \/ Permission_called

SpecCalled == InitCalled /\ [][NextCalled]_vars

(* -------------------- the pool, gather and the driver ----------------- *)

\* the dispatch and the predicates called on their own, which the runtime steps
\* leave alone
apart == <<config, called, shared, dispatch, loaded, commands, built, nested>>

\* all_tasks(): the Tasks of _all_tasks that are not done
all_tasks == {u \in Units : units[u].how # "new" /\ ~Future_done(units[u].future)}

\* Task.cancel(force): the stop signal of the unit's thread is set if it has a
\* thread, Future.cancel() cancels a pending future and nothing else, and with
\* force thread.join(0) returns at once
Task_cancel(us, signal, u, force) ==
    [units |-> [us EXCEPT ![u].future = IF @ = "pending" THEN "cancelled" ELSE @,
                          ![u].cancelled = IF @ = NoValue THEN us[u].future ELSE @],
     stop_signal |-> IF us[u].thread # 0 THEN [signal EXCEPT ![us[u].thread] = TRUE]
                     ELSE signal]

\* Task.cancel on each unit of a set in turn
RECURSIVE cancel_each(_, _, _, _)
cancel_each(us, signal, S, force) ==
    IF S = {} THEN [units |-> us, stop_signal |-> signal]
    ELSE LET u == CHOOSE x \in S : TRUE
             r == Task_cancel(us, signal, u, force)
         IN  cancel_each(r.units, r.stop_signal, S \ {u}, force)

\* the end of Task.run and of _worker's turn: the future gets the result or the
\* exception, and a worker goes back to self._tasks.get()
Task_finish(u, o) ==
    /\ units' = [units EXCEPT ![u].future = "finished", ![u].outcome = o]
    /\ workers' = [w \in Workers |-> IF workers[w] = u THEN 0 ELSE workers[w]]

\* Task.run's first statements on thread th: set_running_or_notify_cancel, which
\* is False for a cancelled future, then self.thread = current_thread()
Task_run(u, th) ==
    IF units[u].future = "cancelled"
    THEN [units EXCEPT ![u].future = "cancelled_notified"]
    ELSE [units EXCEPT ![u].future = "running", ![u].thread = th,
                       ![u].pos = IF Program(units[u].program).looped THEN 0 ELSE 1]

\* create_task(task): submit(task, temp=False) puts it on the workers' queue
create_task(u) ==
    /\ units[u].how = "new"
    /\ ~submit_block
    /\ units' = [units EXCEPT ![u].how = "queued"]
    /\ pool_tasks' = Append(pool_tasks, u)
    /\ UNCHANGED <<apart, stop_signal, workers, submit_block, gathered, driver>>

\* _worker: task = self._tasks.get() and the start of task(); for a cancelled
\* future Task.__call__ raises CancelledError from future.exception(), the
\* worker's set_exception then raises InvalidStateError and the thread ends (-1)
ThreadPoolExecutor__worker(w) ==
    /\ workers[w] = 0
    /\ pool_tasks # <<>>
    /\ LET u == Head(pool_tasks)
       IN  /\ units' = Task_run(u, w)
           /\ workers' = [workers EXCEPT
                             ![w] = IF units[u].future = "cancelled" THEN -1 ELSE u]
    /\ pool_tasks' = Tail(pool_tasks)
    /\ UNCHANGED <<apart, stop_signal, submit_block, gathered, driver>>

\* _temp_worker: the thread that submit(task, temp=True) started calls task()
ThreadPoolExecutor__temp_worker(u) ==
    /\ units[u].how = "temp"
    /\ units[u].future \in {"pending", "cancelled"}
    /\ units' = Task_run(u, TempThread(u))
    /\ UNCHANGED <<apart, stop_signal, workers, pool_tasks, submit_block, gathered,
                   driver>>

\* a sleep that is not ended by the stop signal
sleep_through(th) == "slept"

\* sleep(seconds) on thread th: _signal.wait(seconds) is True if the signal is set
\* before the time is over, and sleep then raises CancelledError
sleep(th) == IF stop_signal[th] THEN "cancelled" ELSE "slept"

\* the test of @loop's while on thread th: CancelledError once the signal is set
loop(th) == IF stop_signal[th] THEN "cancelled" ELSE "again"

\* one step of a running unit's call: the test of @loop, a computation, or sleep;
\* after its last statement a looped function is called again, another returns or
\* raises its exception
Unit_step(u) ==
    /\ units[u].future = "running"
    /\ LET p == Program(units[u].program)
           th == units[u].thread
           pos == units[u].pos
           instr == IF pos = 0 THEN "loop" ELSE p.code[pos]
           stopped == \/ instr = "loop" /\ loop(th) = "cancelled"
                      \/ instr = "sleep" /\ sleep(th) = "cancelled"
       IN  /\ instr # "spin"
           /\ IF stopped THEN Task_finish(u, "cancelled")
              ELSE IF pos < Len(p.code)
              THEN /\ units' = [units EXCEPT ![u].pos = pos + 1]
                   /\ UNCHANGED workers
              ELSE IF p.looped
              THEN /\ units' = [units EXCEPT ![u].pos = 0]
                   /\ UNCHANGED workers
              ELSE Task_finish(u, p.ends)
    /\ UNCHANGED <<apart, stop_signal, pool_tasks, submit_block, gathered, driver>>

\* some thread calls task.cancel() on a unit it has the Task of
cancel(u) ==
    /\ units[u].how # "new"
    /\ units[u].cancelled = NoValue
    /\ LET r == Task_cancel(units, stop_signal, u, FALSE)
       IN  /\ units' = r.units
           /\ stop_signal' = r.stop_signal
    /\ UNCHANGED <<apart, workers, pool_tasks, submit_block, gathered, driver>>

\* the sequences of distinct units that are Tasks not yet submitted
NewUnits ==
    {us \in UNION {[1 .. n -> Units] : n \in 1 .. MaxUnits} :
        /\ \A i \in DOMAIN us : units[us[i]].how = "new"
        /\ \A i, j \in DOMAIN us : i # j => us[i] # us[j]}

\* gather(*us, return_exceptions=re) up to as_completed: each Task is submitted
\* with temp=True and _futures maps its future to its index
gather_submit(us, re) ==
    /\ gathered.pc = "idle"
    /\ ~submit_block
    /\ us \in NewUnits
    /\ units' = [u \in Units |->
                    IF \E i \in DOMAIN us : us[i] = u
                    THEN [units[u] EXCEPT !.how = "temp"] ELSE units[u]]
    /\ gathered' = [pc |-> "waiting", return_exceptions |-> re, futures |-> us,
                    result |-> [i \in DOMAIN us |-> None], taken |-> {},
                    raised |-> None]
    /\ UNCHANGED <<apart, stop_signal, workers, pool_tasks, submit_block, driver>>

\* what future.result() of a completed future does: the value, or an exception
Future_result(u) ==
    CASE units[u].future = "cancelled_notified" ->
             [raised |-> TRUE, kind |-> "futures.CancelledError", unit |-> u]
      [] units[u].outcome = "value" -> [raised |-> FALSE, kind |-> "value", unit |-> u]
      [] units[u].outcome = "cancelled" ->
             [raised |-> TRUE, kind |-> "CancelledError", unit |-> u]
      [] OTHER -> [raised |-> TRUE, kind |-> "Exception", unit |-> u]

\* a gather that files a result by the order of completion
gather_index_completion(g, i) == Cardinality(g.taken) + 1

\* the index gather files a future's result at: _futures[future]
gather_index(g, i) == i

\* one turn of "for future in as_completed(_futures)": the result of a completed
\* future is stored, the module's CancelledError is passed over, another exception
\* is stored or raised; after the last future gather returns
gather_as_completed(i) ==
    /\ gathered.pc = "waiting"
    /\ i \in DOMAIN gathered.futures \ gathered.taken
    /\ units[gathered.futures[i]].future \in {"cancelled_notified", "finished"}
    /\ LET r == Future_result(gathered.futures[i])
           g == [gathered EXCEPT !.taken = @ \cup {i}]
           last == g.taken = DOMAIN g.futures
           stored == [g EXCEPT !.result[gather_index(gathered, i)] = r,
                               !.pc = IF last THEN "returned" ELSE "waiting"]
       IN  gathered' =
             CASE ~r.raised -> stored
               [] r.kind = "CancelledError" ->
                      [g EXCEPT !.pc = IF last THEN "returned" ELSE "waiting"]
               [] g.return_exceptions -> stored
               [] OTHER -> [g EXCEPT !.pc = "raised", !.raised = r]
    /\ UNCHANGED <<apart, units, stop_signal, workers, pool_tasks, submit_block, driver>>

\* _handle_exit on SIGINT or SIGTERM: exit(force=self.should_exit.is_set())
Driver__handle_exit ==
    /\ driver.pc # "stopped"
    /\ ~driver.force_exit
    /\ driver' = [driver EXCEPT !.should_exit = TRUE, !.force_exit = driver.should_exit]
    /\ UNCHANGED <<apart, units, stop_signal, workers, pool_tasks, submit_block, gathered>>

\* _main_thread returns and _shutdown cancels every task of all_tasks()
Driver__shutdown_cancel ==
    /\ driver.pc = "serving"
    /\ driver.should_exit
    /\ LET r == cancel_each(units, stop_signal, all_tasks, FALSE)
       IN  /\ units' = r.units
           /\ stop_signal' = r.stop_signal
    /\ driver' = [driver EXCEPT !.pc = "cancelled"]
    /\ UNCHANGED <<apart, workers, pool_tasks, submit_block, gathered>>

\* sleep(0.1) and tasks = threading.all_tasks(), after the cancels and at each
\* turn of "while tasks and not self.force_exit"
Driver__shutdown_wait ==
    /\ \/ driver.pc = "cancelled"
       \/ driver.pc = "waiting" /\ driver.tasks # {} /\ ~driver.force_exit
    /\ driver' = [driver EXCEPT !.pc = "waiting", !.tasks = all_tasks]
    /\ UNCHANGED <<apart, units, stop_signal, workers, pool_tasks, submit_block, gathered>>

\* the loop is left: task.cancel(True) on the tasks that remain, executor.stop()
Driver__shutdown_stop ==
    /\ driver.pc = "waiting"
    /\ driver.tasks = {} \/ driver.force_exit
    /\ LET r == cancel_each(units, stop_signal, driver.tasks, TRUE)
       IN  /\ units' = r.units
           /\ stop_signal' = r.stop_signal
    /\ submit_block' = TRUE
    /\ driver' = [driver EXCEPT !.pc = "stopped"]
    /\ UNCHANGED <<apart, workers, pool_tasks, gathered>>

\* units of any of the programs, none submitted yet
InitPool ==
    /\ Loaded(InitialTypes, NoHooks)
    /\ session_expire_timeout = 0
    /\ checkers = <<>>
    /\ rule_result = NoValue
    /\ permission_result = NoValue
    /\ loaded = <<>>
    /\ NoCommands
    /\ nested = NoNested
    /\ \E names \in [Units -> Programs] : Started(names)

\* what the worker threads of the pool and the units on them do
WorkerStep ==
    \/ \E w \in Workers : ThreadPoolExecutor__worker(w)
    \/ \E u \in Units : Unit_step(u)

\* tasks are created and gathered by the threads of the bot, and cancelled
NextPool ==
    \/ \E u \in Units : create_task(u)
    \/ \E us \in NewUnits : \E re \in BOOLEAN : gather_submit(us, re)
    \/ \E u \in Units : cancel(u)
    \/ WorkerStep
    \/ \E u \in Units : ThreadPoolExecutor__temp_worker(u)
    \/ \E i \in 1 .. MaxUnits : gather_as_completed(i)

SpecPool == InitPool /\ [][NextPool]_vars

\* what the main thread does in _shutdown
DriverStep ==
    \/ Driver__shutdown_cancel
    \/ Driver__shutdown_wait
    \/ Driver__shutdown_stop

\* tasks are created and the exit signals come while they run
NextShutdown ==
    \/ \E u \in Units : create_task(u)
    \/ WorkerStep
    \/ Driver__handle_exit
    \/ DriverStep

\* the driver's exit with threads that are scheduled: a step of a worker or of the
\* main thread that stays possible is taken; the signals and the calls from outside
\* need not come
SpecShutdown ==
    /\ InitPool
    /\ [][NextShutdown]_vars
    /\ WF_vars(WorkerStep)
    /\ WF_vars(DriverStep)

\* the pool with worker threads that are scheduled: a worker that can take a task
\* from the queue, and a unit that can take a step, does; the calls of create_task,
\* gather and cancel need not come
SpecServe ==
    /\ InitPool
    /\ [][NextPool]_vars
    /\ WF_vars(WorkerStep)

(* --------------------- gathers inside gathered units ------------------- *)

\* what the steps of the nested gathers leave alone
nonested == <<config, called, runtime, loaded, shared, dispatch, commands, built>>

\* the adapter's create_task(bot.handle_event, event): submit(task, temp=False)
\* puts the call on the queue of the workers
Nested_create_task(n) ==
    /\ nested.parent[n] = 0
    /\ nested.pc[n] = "new"
    /\ nested' = [nested EXCEPT !.pc[n] = "queued", !.queue = Append(@, n)]
    /\ UNCHANGED nonested

\* _worker: task = self._tasks.get(), and task() starts
Nested__worker(w) ==
    /\ w \in 1 .. nested.size
    /\ Nested_idle(w)
    /\ nested.queue # <<>>
    /\ nested' = [nested EXCEPT !.pc[Head(nested.queue)] = "running",
                                !.thread[Head(nested.queue)] = w,
                                !.queue = Tail(@)]
    /\ UNCHANGED nonested

\* _temp_worker on the thread that submit(task, temp=True) started: task() starts
Nested__temp_worker(n) ==
    /\ nested.pc[n] = "temp"
    /\ nested' = [nested EXCEPT !.pc[n] = "running", !.thread[n] = MaxPool + n]
    /\ UNCHANGED nonested

\* the calls of S appended to the queue in the order of gather's arguments
RECURSIVE Nested_put(_, _)
Nested_put(q, S) ==
    IF S = {} THEN q
    ELSE LET c == CHOOSE x \in S : \A y \in S : x <= y
         IN  Nested_put(Append(q, c), S \ {c})

\* call n gets to its gather: each argument is made a Task and submitted, and the
\* thread of n waits in as_completed
Nested_gather(n) ==
    /\ nested.pc[n] = "running"
    /\ Children(n) # {}
    /\ nested' = [nested EXCEPT
                     !.pc = [c \in Nodes |->
                               IF c = n THEN "waiting"
                               ELSE IF c \in Children(n)
                               THEN (IF gather_submit_temp THEN "temp" ELSE "queued")
                               ELSE @[c]],
                     !.queue = IF gather_submit_temp THEN @
                               ELSE Nested_put(@, Children(n))]
    /\ UNCHANGED nonested

\* the exception that the gather of n has met among the completed futures
Nested_raised(n) ==
    /\ ~Nested_return_exceptions(n)
    /\ \E c \in Children(n) : nested.pc[c] = "done" /\ nested.outcome[c] = "Exception"

\* as_completed has yielded every future, or the result() of one raised and
\* return_exceptions is false: gather returns or raises in the thread of n
Nested_gather_end(n) ==
    /\ nested.pc[n] = "waiting"
    /\ \/ \A c \in Children(n) : nested.pc[c] = "done"
       \/ Nested_raised(n)
    /\ nested' = [nested EXCEPT !.pc[n] = "returned",
                                !.outcome[n] = IF Nested_raised(n) THEN "Exception"
                                               ELSE "value"]
    /\ UNCHANGED nonested

\* the call of n ends, a leaf with a value or an exception, a call that gathered
\* with what its gather gave: Task.run completes the future and the thread is free
Nested_finish(n, o) ==
    /\ \/ nested.pc[n] = "running" /\ Children(n) = {}
       \/ nested.pc[n] = "returned" /\ o = nested.outcome[n]
    /\ nested' = [nested EXCEPT !.pc[n] = "done", !.outcome[n] = o]
    /\ UNCHANGED nonested

\* a pool of one worker or more, and calls that gather each other in any tree
InitNested ==
    /\ Loaded(InitialTypes, NoHooks)
    /\ checkers = <<>>
    /\ rule_result = NoValue
    /\ permission_result = NoValue
    /\ Unused
    /\ loaded = <<>>
    /\ NoCommands
    /\ \E size \in 1 .. MaxPool : \E f \in Trees : nested = Nested_new(size, f)

\* what the threads of the pool and of the gathers do
NestedStep ==
    \/ \E w \in 1 .. MaxPool : Nested__worker(w)
    \/ \E n \in Nodes : Nested__temp_worker(n)
    \/ \E n \in Nodes : Nested_gather(n)
    \/ \E n \in Nodes : Nested_gather_end(n)
    \/ \E n \in Nodes : \E o \in {"value", "Exception"} : Nested_finish(n, o)

NextNested ==
    \/ \E n \in Nodes : Nested_create_task(n)
    \/ NestedStep

\* the threads are scheduled, and the calls that gather nothing end: a step of a
\* thread that stays possible is taken; the events of the adapter need not come
SpecNested ==
    /\ InitNested
    /\ [][NextNested]_vars
    /\ WF_vars(NestedStep)

(* ---------------------- registration of the handlers ------------------- *)

\* formal parameters of a handler function
MaxParams == 2

\* calls of Processor.new and of the handle decorator in one behaviour
MaxLoads == 2

\* what a formal parameter is to Dependent.parse: one that EventParam accepts, one
\* with a default value, which DefaultParam accepts, one whose default is a Param,
\* and one that no class of HANDLER_PARAM_TYPES accepts
ParamKinds == {"event", "default", "explicit", "unknown"}

\* the functions the plugins register, as the lists of their formal parameters
Signatures == UNION {[1 .. n -> ParamKinds] : n \in 0 .. MaxParams}

\* the for-else over allow_types: the first class whose _check_param accepts the
\* parameter gives the field_info, None if there is none
check_param(kind) == IF kind = "unknown" THEN NoValue ELSE kind

\* ParameterField is a dataclass with the fields name, annotation and field_info:
\* its __init__ raises TypeError for another keyword
ParameterField_init(keywords) ==
    IF keywords = {"name", "annotation", "field_info"} THEN NoValue ELSE "TypeError"

\* a parse_params that accepts every function
Dependent_parse_params_unchecked(sig) == NoValue

\* Dependent.parse_params, the error it raises or None: for each parameter in turn
\* the field_info, ValueError if there is none, and
\* ParameterField(name=..., type_=..., field_info=...)
RECURSIVE Dependent_parse_params(_)
Dependent_parse_params(sig) ==
    IF sig = <<>> THEN NoValue
    ELSE IF Head(sig) # "explicit" /\ check_param(Head(sig)) = NoValue THEN "ValueError"
    ELSE IF ParameterField_init({"name", "type_", "field_info"}) # NoValue
    THEN ParameterField_init({"name", "type_", "field_info"})
    ELSE Dependent_parse_params(Tail(sig))

\* Dependent.parse(call=handler, allow_types=HANDLER_PARAM_TYPES)
Dependent_parse(sig) == Dependent_parse_params(sig)

\* the ProcessorType Processor.new(handlers=[handler]) creates with its defaults
NewType ==
    [type |-> "", rule |-> {}, permission |-> Permission_new({}), priority |-> 1,
     block |-> FALSE, temp |-> FALSE, expire_time |-> NoExpire,
     default_state |-> EmptyState, type_updater |-> NoValue,
     permission_updater |-> NoUpdater, handlers |-> <<5>>, origin |-> NoOrigin]

\* a plugin calls Processor.new(handlers=[handler]), handler a function with the
\* formal parameters sig: the handler is parsed while the class dict is built, and
\* only then is the class appended to processors[priority]
Processor_new(sig) ==
    /\ Len(loaded) < MaxLoads
    /\ LET error == Dependent_parse(sig)
           id == Len(ptypes) + 1
       IN  /\ loaded' = Append(loaded, [by |-> "new", call |-> sig, error |-> error,
                                        type |-> IF error = NoValue THEN id ELSE 0])
           /\ IF error = NoValue
              THEN /\ ptypes' = Append(ptypes, NewType)
                   /\ handlers' = Append(handlers, NewType.handlers)
                   /\ selected' = Append(selected, 0)
                   /\ processors' = Processor_new_store(processors, NewType.priority, id)
              ELSE UNCHANGED <<ptypes, handlers, selected, processors>>
    /\ UNCHANGED <<now, config, called, runtime, commands, built, nested, shared, dpc, event, priorities,
                   break_flag, dependency_cache, tasks>>

\* a plugin decorates a function with the formal parameters sig with p.handle():
\* append_handler parses it and then appends it to the class's handlers
Processor_handle(p, sig) ==
    /\ Len(loaded) < MaxLoads
    /\ p \in 1 .. Len(ptypes)
    /\ LET error == Dependent_parse(sig)
       IN  /\ loaded' = Append(loaded, [by |-> "handle", call |-> sig, error |-> error,
                                        type |-> IF error = NoValue THEN p ELSE 0])
           /\ handlers' = IF error = NoValue THEN [handlers EXCEPT ![p] = Append(@, 5)]
                          ELSE handlers
    /\ UNCHANGED <<now, config, called, runtime, commands, built, nested, shared, ptypes, processors, selected,
                   dpc, event, priorities, break_flag, dependency_cache, tasks>>

\* no plugin is loaded yet
InitLoad ==
    /\ Loaded(<<>>, NoHooks)
    /\ session_expire_timeout = 0
    /\ Uncalled

NextLoad ==
    \/ \E sig \in Signatures : Processor_new(sig)
    \/ \E p \in 1 .. MaxLoads : \E sig \in Signatures : Processor_handle(p, sig)

\* the plugins are loaded: they register their handlers
SpecLoad == InitLoad /\ [][NextLoad]_vars

(* ---------------------------- the commands ---------------------------- *)

\* everything but the expression of Permissions
nobuilt == <<config, called, runtime, loaded, shared, dispatch, commands, nested>>

\* everything but the commands
nocommands == <<config, called, runtime, loaded, shared, dispatch, built, nested>>

\* command(c, command_start=start, ...) while the plugins are loaded:
\* TrieRule.add_prefix(f'{start}{command}', TRIE_VALUE(start, command))
command(c, start) ==
    /\ cmd.pc = "idle"
    /\ start \o c \in DOMAIN prefix \/ Cardinality(DOMAIN prefix) < MaxPrefixes
    /\ prefix' = TrieRule_add_prefix(prefix, start \o c, TRIE_VALUE(start, c))
    /\ cmd' = [cmd EXCEPT !.warned = IF start \o c \in DOMAIN prefix
                                     THEN Present([prefix |-> start \o c,
                                                   value |-> TRIE_VALUE(start, c)])
                                     ELSE @]
    /\ UNCHANGED nocommands

\* the console unloads a plugin: TrieRule.del_prefix(f'{start}{command}')
unload_plugin(c, start) ==
    /\ cmd.pc = "idle"
    /\ start \o c \in DOMAIN prefix
    /\ prefix' = TrieRule_del_prefix(prefix, start \o c)
    /\ UNCHANGED <<nocommands, cmd>>

\* a handle_event that the exception of get_value leaves
handle_event_uncaught(raised) == IF raised THEN "raised" ELSE "parsed"

\* try: TrieRule.get_value(bot, event, state) / except Exception: logger.warn:
\* handle_event goes on to the loop over the levels either way
handle_event_try(raised) == "parsed"

\* handle_event on a message-created event with message m, up to the loop over
\* the levels: state = {}, and TrieRule.get_value in a try whose except logs
handle_event_get_value(m) ==
    /\ cmd.pc = "idle"
    /\ LET r == TrieRule_get_value(prefix, m)
       IN  cmd' = [NoCmd EXCEPT !.pc = handle_event_try(r.raised), !.message = m,
                                !.state = r.state, !.logged = r.raised]
    /\ UNCHANGED <<nocommands, prefix>>

\* check_rule of a Processor whose rule is this CommandRule, which reads cmd,
\* cmd_arg and cmd_whitespace in handle_event's state
check_rule_command(rule) ==
    /\ cmd.pc = "parsed"
    /\ \E k \in DOMAIN prefix : prefix[k].command \in rule.cmds
    /\ cmd' = [cmd EXCEPT !.pc = "checked", !.rule = Present(rule),
                          !.observed = cmd.state,
                          !.matched = CommandRule_call(rule, cmd.state)]
    /\ UNCHANGED <<nocommands, prefix>>

\* handle_event returns and its state dict goes
handle_event_done ==
    /\ cmd.pc \in {"parsed", "checked", "raised"}
    /\ cmd' = NoCmd
    /\ UNCHANGED <<nocommands, prefix>>

InitCommand ==
    /\ Loaded(<<>>, NoHooks)
    /\ session_expire_timeout = 0
    /\ Uncalled

NextCommand ==
    \/ \E c \in CommandNames : \E start \in CommandStarts : command(c, start)
    \/ \E c \in CommandNames : \E start \in CommandStarts : unload_plugin(c, start)
    \/ \E m \in CmdMessages : handle_event_get_value(m)
    \/ \E rule \in CommandRules : check_rule_command(rule)
    \/ handle_event_done

SpecCommand == InitCommand /\ [][NextCommand]_vars

(* ------------------------- Permission.__or__ -------------------------- *)

\* the formal parameters of the permission predicates of the plugins
CheckerSignature(c) == IF c = "always" THEN <<>> ELSE <<"event">>

\* what is given to Permission(...): a function, or a Dependent; params is the
\* tuple of the ParameterField objects of a Dependent, each by its id(), which is
\* its __hash__
Function(c) == [kind |-> "function", call |-> c, params |-> <<>>]
DependentOf(c, params) == [kind |-> "Dependent", call |-> c, params |-> params]

\* the functions of the plugins, and Dependents made of them one at a time
PermissionArgs ==
    {Function("is_s1"), Function("always"), DependentOf("is_s1", <<1>>),
     DependentOf("is_s1", <<2>>), DependentOf("is_member", <<3>>)}

\* Permission.__init__: a Dependent is kept, a function is parsed, and the set of
\* the Dependents is built; the error of the first parse that raises leaves it
Permission_init(args) ==
    LET errors == {Dependent_parse(CheckerSignature(a.call)) :
                      a \in {x \in args : x.kind = "function"}} \ {NoValue}
    IN  IF errors # {}
        THEN [error |-> CHOOSE x \in errors : TRUE, checkers |-> {}]
        ELSE [error |-> NoValue,
              checkers |-> {DependentOf(a.call, a.params) : a \in args}]

\* Permission.__or__: self for None, else Permission(*self.checkers, *other.checkers)
Permission___or__(p, other) ==
    IF other = Absent THEN p
    ELSE Permission_init(p.checkers \cup other[1].checkers)

\* Permission.__call__ on a set of Dependents for event e: the results it can have
Permission_call_dependents(ds, e) ==
    Permission_call_outcomes([d \in ds |-> PermissionChecker(d.call, e)])

\* a plugin evaluates Permission(*A) | Permission(*B), or Permission(*A) | None
Permission_or(A, B) ==
    /\ built.pc = "idle"
    /\ LET left == Permission_init(A)
           right == IF B = Absent THEN Absent ELSE Present(Permission_init(B[1]))
           raised == IF left.error # NoValue THEN left.error
                     ELSE IF right # Absent THEN right[1].error ELSE NoValue
           result == IF raised # NoValue THEN [error |-> raised, checkers |-> {}]
                     ELSE Permission___or__(left, right)
       IN  built' = [pc |-> "done", left |-> A, right |-> B,
                     error |-> result.error, checkers |-> result.checkers]
    /\ UNCHANGED <<nobuilt>>

\* the plugin is done with the expression
Permission_forget ==
    /\ built.pc = "done"
    /\ built' = NoBuilt
    /\ UNCHANGED <<nobuilt>>

InitPermission ==
    /\ Loaded(<<>>, NoHooks)
    /\ session_expire_timeout = 0
    /\ Uncalled

\* the expressions of up to two arguments on each side
NextPermission ==
    \/ \E A \in SUBSET PermissionArgs : \E B \in SUBSET PermissionArgs :
          /\ Cardinality(A) <= 2
          /\ Cardinality(B) <= 2
          /\ \/ Permission_or(A, Present(B))
             \/ B = {} /\ Permission_or(A, Absent)
    \/ Permission_forget

SpecPermission == InitPermission /\ [][NextPermission]_vars

(* ------------------------------- claims ------------------------------- *)

\* the runs in progress or over, as <<dispatcher, ProcessorType>>
Runs == {dp \in Dispatchers \X Ids : dp[2] \in DOMAIN tasks[dp[1]]}

\* the run of ProcessorType dp[2] for the event of dispatcher dp[1]
Run(dp) == tasks[dp[1]][dp[2]]

Registers(dp) ==
    /\ dp \in Runs
    /\ Run(dp).pc \in {"paused", "rejected"}
    /\ tasks'[dp[1]][dp[2]].pc = "done"

\* what the step of Registers(dp) adds: one ProcessorType, temp, priority 0, blocking,
\* with an empty rule, appended to level 0 of the registry
RegistersOne ==
    /\ Len(ptypes') = Len(ptypes) + 1
    /\ SubSeq(ptypes', 1, Len(ptypes)) = ptypes
    /\ ptypes'[Len(ptypes')].temp
    /\ ptypes'[Len(ptypes')].priority = 0
    /\ ptypes'[Len(ptypes')].block
    /\ ptypes'[Len(ptypes')].rule = {}
    /\ 0 \in DOMAIN processors'
    /\ processors'[0] =
          Append(IF 0 \in DOMAIN processors THEN processors[0] ELSE <<>>, Len(ptypes'))
    /\ \A pr \in DOMAIN processors : pr # 0 => processors'[pr] = processors[pr]

\* the events a permission accepts come from session s only
OnlySession(perm, s) == \A e \in Events : Permission_call(perm, e) => e.session = s

Awaited(d) ==
    {c \in DOMAIN tasks[d] :
        /\ ptypes[c].origin.kind # NoValue
        /\ ptypes[c].type_updater = NoValue
        /\ ptypes[c].origin.type = event[d].type
        /\ ptypes[c].origin.session = event[d].session
        /\ ~Processor_expired(ptypes[c], now)}

\* C4: after a Processor without type updater pauses or rejects on an event of type
\* T from session S, the next event of type T from S dispatched before the timeout
\* is matched by the continuation, which runs, and the original Processor does not
\* start a run for that event.
C4_ContinuationMatches ==
    \A d \in Dispatchers :
        dpc[d] = "post" =>
            \A c \in Awaited(d) :
                /\ tasks[d][c].matched
                /\ tasks[d][c].how # NoValue
                /\ ptypes[c].origin.from \in DOMAIN tasks[d] =>
                      ~tasks[d][ptypes[c].origin.from].matched

\* C5: the levels are processed in ascending order; when a Processor that ran at
\* level p blocks (block=True, stop() or StopPropagation), every matching Processor
\* of level p still runs to its end and no Processor of a level above p is checked
\* or run for the event.
C5_BlockingStopsLaterLevels ==
    \A d \in Dispatchers :
        /\ \A p, q \in DOMAIN tasks[d] :
              /\ tasks[d][p].level < tasks[d][q].level => tasks[d][p].pc = "done"
              /\ tasks[d][p].result = "StopPropagation" =>
                    tasks[d][q].level <= tasks[d][p].level
        /\ \A p \in DOMAIN tasks[d] :
              /\ priorities[d] # <<>> => tasks[d][p].level <= Head(priorities[d])
              /\ dpc[d] \in {"level", "post"} =>
                    /\ tasks[d][p].pc = "done"
                    /\ tasks[d][p].matched => tasks[d][p].how # NoValue
              /\ (/\ tasks[d][p].pc = "done"
                  /\ tasks[d][p].matched
                  /\ \/ ptypes[p].block
                     \/ \E i \in 1 .. Len(tasks[d][p].executed) :
                           tasks[d][p].executed[i].outcome \in {"stop", "stop_propagation"})
                 => tasks[d][p].result = "StopPropagation"
        /\ \A i \in 1 .. (Len(priorities[d]) - 1) : priorities[d][i] < priorities[d][i + 1]

\* a Processor blocked with stop() at level 1, the loop is over, and the registry
\* holds another level above it, of which no Processor got a task
C5_Witness ==
    \E p \in DOMAIN tasks[1] :
        /\ dpc[1] = "post"
        /\ ~ptypes[p].block
        /\ tasks[1][p].result = "StopPropagation"
        /\ \E i \in 1 .. Len(tasks[1][p].executed) : tasks[1][p].executed[i].outcome = "stop"
        /\ \E pr \in DOMAIN processors :
              /\ pr > tasks[1][p].level
              /\ processors[pr] # <<>>
              /\ \A q \in Elems(processors[pr]) : q \notin DOMAIN tasks[1]

\* C6: a ProcessorType with block=True whose permission or rule check fails, or
\* that is expired, does not stop propagation: the flag is only set by a Processor
\* that ran, and without it every level is processed.
C6_UnmatchedNeverBlocks ==
    \A d \in Dispatchers :
        /\ \A p \in DOMAIN tasks[d] :
              ~tasks[d][p].matched => tasks[d][p].result # "StopPropagation"
        /\ break_flag[d] =>
              \E p \in DOMAIN tasks[d] :
                  tasks[d][p].matched /\ tasks[d][p].result = "StopPropagation"
        /\ (dpc[d] = "post" /\ ~break_flag[d]) => priorities[d] = <<>>

\* a blocking ProcessorType did not match, and a Processor of a later level ran
C6_Witness ==
    \E p, q \in DOMAIN tasks[1] :
        /\ ptypes[p].block
        /\ tasks[1][p].pc = "done"
        /\ ~tasks[1][p].matched
        /\ tasks[1][q].level > tasks[1][p].level
        /\ tasks[1][q].executed # <<>>

\* the step that ends the run of dp
EndsRun(dp) ==
    /\ dp \in Runs
    /\ Run(dp).pc \in {"select", "handler", "paused", "rejected"}
    /\ tasks'[dp[1]][dp[2]].pc = "done"

C8_SkipContinuesChain ==
    \A dp \in Runs :
        LET t == Run(dp)
        IN  \A i \in 1 .. Len(t.executed) :
                /\ t.executed[i].handler = t.chain[i]
                /\ (/\ t.executed[i].outcome \in {"skip", "type_mismatch"}
                    /\ i = Len(t.executed))
                   => IF i < Len(t.chain)
                      THEN /\ t.pc = "handler"
                           /\ handlers[dp[2]] # <<>>
                           /\ Head(handlers[dp[2]]) = t.chain[i + 1]
                      ELSE /\ t.pc = "done"
                           /\ t.how = "exhausted"
                           /\ t.created = 0

\* the first two handlers of a chain of three skipped, one in its body and one in
\* its parameters, and the third was executed
C8_Witness ==
    \E dp \in Runs :
        /\ Len(Run(dp).executed) = 3
        /\ Run(dp).executed[1].outcome = "skip"
        /\ Run(dp).executed[2].outcome = "type_mismatch"
        /\ Run(dp).executed[3].body

C10_TempRunsOnce ==
    \A c \in 1 .. Len(ptypes) :
        /\ selected[c] <= 1
        /\ selected[c] >= 1 =>
              \A pr \in DOMAIN processors : c \notin Elems(processors[pr])

\* the ProcessorTypes of the registry
Registered == UNION {Elems(processors[pr]) : pr \in DOMAIN processors}

\* the step in which _check_processor considers ProcessorType dp[2] for the event of
\* dispatcher dp[1]
Considers(dp) ==
    /\ dp \in Runs
    /\ Run(dp).pc = "check"
    /\ dp[2] \in DOMAIN tasks'[dp[1]]
    /\ tasks'[dp[1]][dp[2]].pc # "check"

\* C11: a ProcessorType whose expire_time is earlier than the current time when
\* handle_event considers it is removed from the registry and is not run for that
\* event, with no error and no StopPropagation as the result of its task; a
\* ProcessorType that is out of the registry does not come back and gets no task
\* for a later event.
C11_ExpiredRemoved ==
    [][/\ \A dp \in Dispatchers \X Ids :
             (/\ Considers(dp)
              /\ ptypes[dp[2]].expire_time # NoExpire
              /\ now > ptypes[dp[2]].expire_time)
             => /\ dp[2] \notin UNION {Elems(processors'[pr]) : pr \in DOMAIN processors'}
                /\ tasks'[dp[1]][dp[2]].pc = "done"
                /\ ~tasks'[dp[1]][dp[2]].matched
                /\ tasks'[dp[1]][dp[2]].how = NoValue
                /\ tasks'[dp[1]][dp[2]].result = NoValue
       /\ \A p \in 1 .. Len(ptypes) :
             p \notin Registered =>
                /\ p \notin UNION {Elems(processors'[pr]) : pr \in DOMAIN processors'}
                /\ \A d \in Dispatchers :
                      p \in DOMAIN tasks'[d] => p \in DOMAIN tasks[d]]_vars

\* a continuation was considered after its expire_time: it is out of the registry
\* and was not run, and the dispatch of the event is over
C11_Witness ==
    \E dp \in Runs :
        /\ ptypes[dp[2]].expire_time # NoExpire
        /\ now > ptypes[dp[2]].expire_time
        /\ Run(dp).pc = "done"
        /\ ~Run(dp).matched
        /\ dp[2] \notin Registered
        /\ dpc[dp[1]] = "post"

\* the continuations in the registry that a run for an event of session s left
Pending(s) ==
    {c \in Registered : ptypes[c].origin.kind # NoValue /\ ptypes[c].origin.session = s}

Checkers == DOMAIN checkers

C14_PermissionIsDisjunction ==
    (permission_result # NoValue /\ \A c \in Checkers : checkers[c] # "error") =>
        /\ permission_result \in {"true", "false"}
        /\ permission_result = "true"
              <=> (Checkers = {} \/ \E c \in Checkers : checkers[c] = "true")

\* event e has the type of ProcessorType pt, so that its permission is called
TypeMatches(pt, e) == e.type = (IF pt.type = "" THEN e.type ELSE pt.type)

\* a predicate of the permission of pt raises an exception that is not skip for e
PermissionRaises(pt, e) ==
    /\ TypeMatches(pt, e)
    /\ ~pt.permission.wrapped
    /\ \E c \in pt.permission.checkers : PermissionChecker(c, e) = "error"

\* a predicate of the rule of pt raises an exception that is not skip for e
RuleRaises(pt, e) ==
    /\ TypeMatches(pt, e)
    /\ \E c \in pt.rule : RuleChecker(c, e) = "error"

\* C15: when a permission predicate or a rule predicate of a ProcessorType raises an
\* exception that is not skip, the check of that ProcessorType is false and the
\* Processor is not run.
C15_RaisingCheckFails ==
    \A dp \in Runs :
        (/\ Run(dp).pc # "check"
         /\ \/ PermissionRaises(ptypes[dp[2]], event[dp[1]])
            \/ RuleRaises(ptypes[dp[2]], event[dp[1]]))
        => /\ ~Run(dp).matched
           /\ Run(dp).pc = "done"
           /\ Run(dp).executed = <<>>

\* C16: when a handler of Processor A raises an exception that is not a control
\* flow signal, the run of A ends without an error and without a StopPropagation as
\* its result unless A blocks, the other matching Processors of the level run to
\* their end, and unless a Processor blocks every later level is processed.
C16_HandlerErrorContained ==
    \A d \in Dispatchers :
        \A p \in DOMAIN tasks[d] :
            tasks[d][p].how = "error" =>
                /\ tasks[d][p].pc = "done"
                /\ tasks[d][p].result = "StopPropagation" <=> tasks[d][p].block
                /\ dpc[d] \in {"level", "post"} =>
                      \A q \in DOMAIN tasks[d] :
                          tasks[d][q].level = tasks[d][p].level =>
                              /\ tasks[d][q].pc = "done"
                              /\ tasks[d][q].matched => tasks[d][q].how # NoValue
                /\ (/\ dpc[d] = "post"
                    /\ \A q \in DOMAIN tasks[d] : tasks[d][q].result # "StopPropagation")
                   => /\ priorities[d] = <<>>
                      /\ \A q \in Registered : ~ptypes[q].temp => q \in DOMAIN tasks[d]

\* a handler of a Processor of level 1 raised, another Processor of the level ran to
\* its end, and a Processor of level 2 ran
C16_Witness ==
    \E p, q, r \in DOMAIN tasks[1] :
        /\ dpc[1] = "post"
        /\ tasks[1][p].how = "error"
        /\ q # p
        /\ tasks[1][q].level = tasks[1][p].level
        /\ tasks[1][q].executed # <<>>
        /\ tasks[1][r].level > tasks[1][p].level
        /\ tasks[1][r].executed # <<>>

\* C17: when an event pre-processor raises ignore, handle_event checks and runs no
\* Processor for the event.
C17_IgnoredEventNotDispatched ==
    \A d \in Dispatchers :
        event_pre[d] = "ignore" =>
            /\ DOMAIN tasks[d] = {}
            /\ dpc[d] \notin {"level", "gather"}

\* C18: when a run pre-processor raises ignore for a matched Processor, run() of
\* that Processor is not executed, no handler of it runs, and it does not stop the
\* propagation.
C18_IgnoredRunNotExecuted ==
    \A dp \in Runs :
        Run(dp).run_pre = "ignore" =>
            /\ Run(dp).pc = "done"
            /\ Run(dp).how = "ignored"
            /\ Run(dp).executed = <<>>
            /\ Run(dp).result # "StopPropagation"

C20_StateNotShared ==
    \A dp \in Runs :
        Run(dp).seen \subseteq Processor_rule_writes(ptypes[dp[2]], event[dp[1]])

\* C21: the Processors run for one event are handed the same dispatch state: a key
\* that a handler of one Processor wrote is in the state of every Processor whose
\* run starts afterwards in the same dispatch, sibling or later level.
C21_HandlerWritesVisible ==
    [][\A d \in Dispatchers : \A q \in DOMAIN tasks[d] :
          (/\ q \in DOMAIN tasks'[d]
           /\ tasks[d][q].pc = "select"
           /\ tasks'[d][q].pc # "select"
           /\ tasks'[d][q].how # "ignored")
          => UNION {tasks[d][p].written : p \in DOMAIN tasks[d]}
                 \subseteq tasks'[d][q].seen]_vars

\* the value a unit returned or the exception it raised, as gather is to report it
Reported(u) ==
    CASE units[u].outcome = "value" -> [raised |-> FALSE, kind |-> "value", unit |-> u]
      [] units[u].outcome = "cancelled" ->
             [raised |-> TRUE, kind |-> "CancelledError", unit |-> u]
      [] OTHER -> [raised |-> TRUE, kind |-> "Exception", unit |-> u]

\* the units of the call of gather that ran to an end
Ended == {i \in DOMAIN gathered.futures : units[gathered.futures[i]].future = "finished"}

\* C22 as stated: gather(u1..un, return_exceptions=True) does not raise, and when it
\* has returned its list has n entries, the i-th being the value ui returned or the
\* exception ui raised.
C22_AsStated ==
    gathered.return_exceptions =>
        /\ gathered.pc # "raised"
        /\ gathered.pc = "returned" =>
              /\ Len(gathered.result) = Len(gathered.futures)
              /\ \A i \in Ended : gathered.result[i] = Reported(gathered.futures[i])

\* C22: gather(u1..un, return_exceptions=True) does not raise, and when it has
\* returned every unit is done and its list has n entries, the i-th being the value
\* ui returned, or the exception ui raised, or None if ui ended with the runtime's
\* CancelledError, or the futures' CancelledError if ui was cancelled before it ran.
C22_GatherOrdered ==
    gathered.return_exceptions =>
        /\ gathered.pc # "raised"
        /\ gathered.pc = "returned" =>
              /\ Len(gathered.result) = Len(gathered.futures)
              /\ \A i \in DOMAIN gathered.futures :
                    LET u == gathered.futures[i]
                    IN  /\ Future_done(units[u].future)
                        /\ gathered.result[i] =
                             CASE units[u].future # "finished" ->
                                      [raised |-> TRUE, kind |-> "futures.CancelledError",
                                       unit |-> u]
                               [] units[u].outcome = "cancelled" -> None
                               [] OTHER -> Reported(u)

\* gather(u2, u1, return_exceptions=True) has returned: u1 raised an exception
\* first, u2 was cancelled in its sleep afterwards
C22_Witness ==
    /\ gathered.pc = "returned"
    /\ gathered.return_exceptions
    /\ gathered.futures = <<2, 1>>
    /\ gathered.result = <<None, [raised |-> TRUE, kind |-> "Exception", unit |-> 1]>>
    /\ units[2].outcome = "cancelled"

\* C23: gather(..., return_exceptions=False) has neither returned nor raised while
\* one of its units is not done; and if a unit failed it has raised, an exception
\* that one of its units raised.
C23_GatherWaitsForAll ==
    (~gathered.return_exceptions /\ gathered.pc \in {"returned", "raised"}) =>
        /\ \A i \in DOMAIN gathered.futures :
              Future_done(units[gathered.futures[i]].future)
        /\ (\E i \in Ended : units[gathered.futures[i]].outcome # "value") =>
              /\ gathered.pc = "raised"
              /\ \E i \in Ended : /\ gathered.raised = Reported(gathered.futures[i])
                                  /\ gathered.raised.raised

\* the statement a running unit is at: the test of @loop, or one of its function
Instr(u) ==
    IF units[u].pos = 0 THEN "loop" ELSE Program(units[u].program).code[units[u].pos]

\* Task.cancel is called, without force, on unit u while it runs
CancelsRunning(u) ==
    /\ units[u].future = "running"
    /\ units[u].cancelled = NoValue
    /\ units'[u].cancelled # NoValue

\* unit u, running, takes a step of its function
Steps(u) == units[u].future = "running" /\ units'[u] # units[u] /\ ~CancelsRunning(u)

\* C24 as stated: cancel without force on a running unit sets the stop signal of
\* its thread and changes nothing else of the unit; a running unit ends with the
\* CancelledError only in a call of sleep, which raises it if the signal is set;
\* and a unit whose function has no call of sleep does not end with it.
C24_AsStated ==
    [][\A u \in Units :
          /\ CancelsRunning(u) =>
                /\ units'[u] = [units[u] EXCEPT !.cancelled = "running"]
                /\ stop_signal' = [stop_signal EXCEPT ![units[u].thread] = TRUE]
          /\ (Steps(u) /\ units'[u].outcome = "cancelled") => Instr(u) = "sleep"
          /\ (Steps(u) /\ Instr(u) = "sleep" /\ stop_signal[units[u].thread]) =>
                units'[u].outcome = "cancelled"
          /\ (\A i \in DOMAIN Program(units[u].program).code :
                 Program(units[u].program).code[i] # "sleep") =>
                units'[u].outcome # "cancelled"]_vars

\* C24: cancel without force on a running unit sets the stop signal of its thread
\* and changes nothing else of the unit; a running unit ends with the
\* CancelledError only in a call of sleep or in the test of @loop, each of which
\* raises it if the signal is set; and a unit whose function has no call of sleep
\* and is not wrapped by @loop does not end with it.
C24_CancelIsCooperative ==
    [][\A u \in Units :
          /\ CancelsRunning(u) =>
                /\ units'[u] = [units[u] EXCEPT !.cancelled = "running"]
                /\ stop_signal' = [stop_signal EXCEPT ![units[u].thread] = TRUE]
          /\ (Steps(u) /\ units'[u].outcome = "cancelled") =>
                Instr(u) \in {"sleep", "loop"}
          /\ (Steps(u) /\ Instr(u) \in {"sleep", "loop"}
                /\ stop_signal[units[u].thread]) =>
                units'[u].outcome = "cancelled"
          /\ (/\ ~Program(units[u].program).looped
              /\ \A i \in DOMAIN Program(units[u].program).code :
                    Program(units[u].program).code[i] # "sleep") =>
                units'[u].outcome # "cancelled"]_vars

\* both units were cancelled while they ran: the one that computes and returns
\* ran to its end, the one that computes and sleeps got the error from sleep
C24_Witness ==
    /\ units[1].program = "compute"
    /\ units[1].cancelled = "running"
    /\ units[1].outcome = "value"
    /\ units[2].program = "nap"
    /\ units[2].cancelled = "running"
    /\ units[2].outcome = "cancelled"

\* C25: cancellation is per unit: a unit that got the CancelledError from sleep is
\* a unit on which Task.cancel was called, whatever was cancelled on its thread
\* before.
C25_CancellationPerUnit ==
    \A u \in Units :
        (units[u].outcome = "cancelled" /\ ~Program(units[u].program).looped)
            => units[u].cancelled # NoValue

\* C26: the driver's shutdown always terminates: once the exit is asked for, the
\* tasks are cancelled, waited for no longer than a bounded time and then cancelled
\* with force, and the pool is stopped, even if a unit never ends and no second
\* exit signal comes.
C26_ShutdownTerminates == driver.should_exit ~> (driver.pc = "stopped" /\ submit_block)

\* a function with a formal parameter that no allowed class accepts and that has
\* no Param as its default
Unmatched(sig) == \E i \in DOMAIN sig : sig[i] = "unknown"

\* C27: a registration of a handler with a formal parameter that matches no allowed
\* provider kind and has no explicit provider raises an error, and adds neither a
\* ProcessorType to the registry nor a handler to a ProcessorType: every handler of
\* the registry was parsed without error, so none fails for it in a dispatch.
C27_UnmatchedParameterFailsAtLoad ==
    /\ [](\A k \in DOMAIN loaded :
             /\ Unmatched(loaded[k].call) => loaded[k].error # NoValue
             /\ loaded[k].type # 0 => ~Unmatched(loaded[k].call))
    /\ [](Cardinality({k \in DOMAIN loaded : loaded[k].type # 0})
             = Len(ptypes)
               + Cardinality({k \in DOMAIN loaded :
                                 loaded[k].type # 0 /\ loaded[k].by = "handle"}))
    /\ [][(Len(loaded') > Len(loaded) /\ Unmatched(loaded'[Len(loaded')].call))
             => UNCHANGED <<ptypes, handlers, processors>>]_vars

\* a handler without parameters was registered, then a handler whose second
\* parameter matches nothing was refused
C27_Witness ==
    /\ Len(loaded) = 2
    /\ loaded[1].type = 1
    /\ loaded[2].by = "handle"
    /\ loaded[2].call = <<"event", "unknown">>
    /\ loaded[2].error # NoValue
    /\ handlers = <<<<5>>>>

C29_GeneratorEnteredAndExited ==
    \A d \in Dispatchers :
        /\ contexts[d].made \subseteq contexts[d].entered
        /\ contexts[d].exited = IF dpc[d] = "idle" THEN contexts[d].made ELSE {}

\* C30: when the value resolved for a parameter fails validation against the
\* annotation, the only error raised is TypeMisMatch with the parameter and the
\* value; the handler's body is not executed, the handler is skipped, and the
\* handlers after it in the chain are still run, in their order.
C30_TypeMisMatchSkipsHandler ==
    \A dp \in Runs :
        LET t == Run(dp)
        IN  \A i \in 1 .. Len(t.executed) :
                t.executed[i].raised # NoError =>
                    /\ t.executed[i].raised =
                           [class |-> "TypeMisMatch", param |-> "message",
                            value |-> event[dp[1]].message]
                    /\ ~t.executed[i].body
                    /\ t.executed[i].outcome = "type_mismatch"
                    /\ i < Len(t.executed) => t.executed[i + 1].handler = t.chain[i + 1]
                    /\ (i = Len(t.executed) /\ i < Len(t.chain)) => t.pc = "handler"
                    /\ t.pc = "done" =>
                           \/ t.how = "exhausted" /\ Len(t.executed) = Len(t.chain)
                           \/ \E j \in i + 1 .. Len(t.executed) :
                                  t.executed[j].outcome = t.how

\* the message m1 failed the validation of the second handler's parameter after
\* the first handler returned, and the third handler's body was executed
C30_Witness ==
    \E dp \in Runs :
        /\ Len(Run(dp).executed) = 3
        /\ Run(dp).executed[1].outcome = "return"
        /\ Run(dp).executed[2].raised.class = "TypeMisMatch"
        /\ Run(dp).executed[2].raised.value = "m1"
        /\ Run(dp).executed[3].body
        /\ Run(dp).executed[3].outcome = "return"

\* the text of the first segment of the parsed message, leading whitespace
\* stripped, starts with the registered prefix p
Parsed(p) ==
    /\ cmd.pc # "idle"
    /\ cmd.message # <<>>
    /\ Head(cmd.message).is_text
    /\ p \in DOMAIN prefix
    /\ startswith(lstrip(Head(cmd.message).str), p)

\* the registered prefixes <<P1, P2>> with P1 a strict prefix of P2 and P2 the
\* longest registered prefix the parsed text starts with
Nested ==
    {pp \in (DOMAIN prefix) \X (DOMAIN prefix) :
        /\ pp[1] # pp[2]
        /\ startswith(pp[2], pp[1])
        /\ Parsed(pp[2])
        /\ \A k \in DOMAIN prefix : Parsed(k) => Len(k) <= Len(pp[2])}

\* C31: for registered prefixes P1 and P2 with P1 a strict prefix of P2 and a
\* message whose first text segment, leading whitespace stripped, starts with P2,
\* the command parse records P2 as the raw command, with the command name and
\* the start token registered for P2, and not P1's.
C31_LongestPrefixWins ==
    \A pp \in Nested :
        /\ cmd.state.raw_command = Present(pp[2])
        /\ cmd.state.command = Present(prefix[pp[2]].command)
        /\ cmd.state.command_start = Present(prefix[pp[2]].command_start)

\* /a and /aa are registered and a message that starts with /aa was parsed
C31_Witness ==
    /\ <<(<<"/", "a">>), (<<"/", "a", "a">>)>> \in Nested
    /\ cmd.state.raw_command = Present(<<"/", "a", "a">>)
    /\ cmd.state.command = Present(<<"a", "a">>)

\* C32: a command registered with force_whitespace=True matches a message with
\* a non-empty argument only if at least one whitespace character separates the
\* matched prefix from the argument; a message whose argument follows the prefix
\* directly does not match.
C32_ForceWhitespaceNeedsSeparator ==
    (/\ cmd.pc = "checked"
     /\ cmd.rule[1].force_whitespace = [kind |-> "bool", bool |-> TRUE, str |-> <<>>]
     /\ cmd.observed.command_arg # Absent
     /\ cmd.observed.command_arg[1] # <<>>
     /\ cmd.matched)
        => /\ cmd.observed.command_whitespace # Absent
           /\ cmd.observed.command_whitespace[1] # <<>>

\* C33: if the command parse raises for an event, handle_event logs it and goes
\* on to check and run the Processors, and the state they observe holds an empty
\* command-parse result: command, raw command, start token, whitespace and
\* argument are all None.
C33_ParseErrorLeavesEmptyResult ==
    cmd.logged =>
        /\ cmd.pc \in {"parsed", "checked"}
        /\ cmd.state = EmptyResult
        /\ cmd.pc = "checked" => cmd.observed = EmptyResult /\ ~cmd.matched

\* a command is registered, the parse of a message without segments raised and
\* was logged, and a CommandRule was then checked against the empty result
C33_Witness ==
    /\ prefix # <<>>
    /\ cmd.message = <<>>
    /\ cmd.logged
    /\ cmd.pc = "checked"
    /\ cmd.observed = EmptyResult

\* C34: add_prefix(prefix, v2) on a prefix already registered with v1 leaves the
\* trie unchanged: a registration that is refused changes nothing, and as long
\* as a prefix stays in the trie it has its one entry with the value of its
\* first registration.
C34_AddPrefixNeverOverwrites ==
    [][/\ \A k \in DOMAIN prefix : k \in DOMAIN prefix' => prefix'[k] = prefix[k]
       /\ cmd'.warned # cmd.warned => prefix' = prefix]_vars

\* /a is registered with the start / and the command a, and its registration
\* with the empty start and the command /a was refused
C34_Witness ==
    /\ <<"/", "a">> \in DOMAIN prefix
    /\ prefix[<<"/", "a">>] = TRIE_VALUE(<<"/">>, <<"a">>)
    /\ cmd.warned = Present([prefix |-> <<"/", "a">>,
                             value |-> TRIE_VALUE(<<>>, <<"/", "a">>)])

\* the predicates an argument list names
Calls(args) == {a.call : a \in args}

\* C35: Permission(A) | Permission(B) yields a Permission whose predicate set is
\* the union of the two predicate sets, a predicate that is in both appearing
\* once, and which evaluates like Permission(A, B) for every event; P | None is P.
C35_OrIsUnion ==
    built.pc = "done" =>
        /\ built.error = NoValue
        /\ built.right = Absent =>
               built.checkers = {DependentOf(a.call, a.params) : a \in built.left}
        /\ built.right # Absent =>
               LET both == Calls(built.left) \cup Calls(built.right[1])
               IN  /\ Calls(built.checkers) = both
                   /\ Cardinality(built.checkers) = Cardinality(both)
                   /\ \A e \in Events :
                          Permission_call_dependents(built.checkers, e)
                              = Permission_call_outcomes(
                                    [c \in both |-> PermissionChecker(c, e)])

\* C36: running a ProcessorType that is not temp leaves its registered handler
\* chain unchanged: every run of it that was selected has the whole registered
\* chain to execute, from its first handler, and the class's list is the
\* registered one whenever no run of it is under way.
C36_RunLeavesChainUnchanged ==
    \A p \in 1 .. Len(ptypes) :
        ~ptypes[p].temp =>
            /\ \A d \in Dispatchers :
                   (p \in DOMAIN tasks[d] /\ tasks[d][p].pc \notin {"check", "select"}
                    /\ tasks[d][p].matched)
                       => tasks[d][p].chain = ptypes[p].handlers
            /\ (\A d \in Dispatchers : dpc[d] = "idle") => handlers[p] = ptypes[p].handlers

WorkerFree(w) == workers[w] \in {0, -1}

\* C38: every task submitted to the pool and never cancelled is eventually
\* executed, and neither a cancel of a queued task nor a task that raises ends a
\* worker thread: every worker of the pool stays alive. A task can only wait
\* for ever behind calls that never return, so the first half is required of the
\* behaviours in which some worker is again and again not executing a call.
C38_WorkersServeEveryTask ==
    /\ [](\A w \in Workers : workers[w] # -1)
    /\ \A u \in Units :
          []<>(\E w \in Workers : WorkerFree(w))
              => ((units[u].how = "queued")
                      ~> (units[u].future \in {"running", "finished"}
                              \/ units[u].cancelled # NoValue))

\* C39: a gather called by a unit that is itself an argument of a gather
\* returns (or raises, if a unit raised) once the units under it have ended, for
\* every tree of gathers and every size of the pool: no nesting leaves a gather
\* waiting for ever because the workers of the pool are all taken.
C39_NestedGatherReturns ==
    \A n \in Nodes :
        (nested.parent[n] # 0 /\ nested.pc[n] = "waiting")
            ~> (nested.pc[n] \in {"returned", "done"})

\* C39: with one worker in the pool, handle_event on it, a gather three levels
\* down has returned
C39_Witness ==
    \E n \in Nodes :
        /\ nested.size = 1
        /\ nested.parent[n] # 0
        /\ nested.parent[nested.parent[n]] # 0
        /\ nested.thread[nested.parent[nested.parent[n]]] = 1
        /\ Children(n) # {}
        /\ nested.pc[n] = "returned"
        /\ nested.pc[nested.parent[n]] = "waiting"

\* C40: a parameter whose provider is not marked validate never raises a type
\* mismatch and never has its handler skipped for one, whatever its value is.
C40_UnvalidatedNeverMismatches ==
    \A d \in Dispatchers :
        \A p \in DOMAIN tasks[d] :
            \A i \in DOMAIN tasks[d][p].executed :
                LET x == tasks[d][p].executed[i]
                IN  ~HandlerValidate(x.handler)
                        => /\ x.raised.class # "TypeMisMatch"
                           /\ x.outcome # "type_mismatch"

====
